---- MODULE Spec2Model ----
(***************************************************************************)
(* A model of the go-agent RAG pipeline: the chat turn of chat.Service     *)
(* (embed, vector search, graph insights, merge, generate or stream), the  *)
(* Markdown / plain-text chunker of the ingestion package, and             *)
(* ingestion.Service.PersistDocument with its graph mirror.                *)
(*                                                                         *)
(* A Go string is a sequence of one-character strings, so that trimming,   *)
(* lower-casing, substring tests and byte lengths are computed.            *)
(***************************************************************************)
EXTENDS Integers, Sequences, FiniteSets, TLC

VARIABLES
    svc,        \* chat.Service: which collaborators NewService was given
    input,      \* the arguments of the turn in progress
    env,        \* what each collaborator stub answers (fixed once it has answered)
    pc,         \* position of Service.chat
    loc,        \* locals of Service.chat: chunks, insights, sources, messages, builder
    trace,      \* the turn's external events in order: collaborator calls, responses
                \* read from the LLM stream, streamFn invocations, the return
    ret,        \* what the turn returned
    prev,       \* the first turn's outcome, kept when the caller repeats the turn
    content,    \* chunker input: the lines of the document
    target,     \* chunker input
    overlap,    \* chunker input
    chunked,    \* chunker output
    rag_documents, \* relational store: path -> document row
    rag_chunks,    \* relational store: path -> chunk rows of the document
    graph,         \* graph mirror: path -> document node with chunks and sections
    persisted,     \* the PersistDocument calls made so far, with their outcomes
    fnCall,     \* a helper of the chat package called on its own: name and arguments
    results,    \* what the successive calls of that helper returned
    tree,       \* the files under the data directory, in the order WalkDir visits them
    job,        \* position of IngestDirectory: its entries, the next one, its return
    ingestLog,  \* what IngestDirectory did, in order: files read, parser and
                \* embedder calls, PersistDocument calls, each ingestFile's error
    ingested,   \* the outcome of IngestDocument called on its own
    reingested, \* the outcome of IngestDocument on the same data at another path
    request,    \* handleChatStream: how far the handler is and what it answered
    sse,        \* the sendSSE calls of the handler in order, each with its event,
                \* its payload and whether it returned nil
    session     \* chatCmd: position of its loop, conversationHistory and the
                \* turns made so far

chatVars == <<svc, input, env, pc, loc, trace, ret, prev>>
chunkVars == <<content, target, overlap, chunked>>
persistVars == <<rag_documents, rag_chunks, graph, persisted>>
fnVars == <<fnCall, results>>
ingestVars == <<tree, job, ingestLog, ingested, reingested>>
serverVars == <<request, sse>>
vars == <<chatVars, chunkVars, persistVars, fnVars, ingestVars, serverVars, session>>

----------------------------------------------------------------------------
(* Bounds of the model *)

MaxChunks == 2      \* length of a vector-search result
MaxStream == 2      \* responses carrying content in one GenerateStream call
MaxHistory == 1     \* earlier turns in the caller's history
MaxLines == 3       \* lines of a chunked document
MaxPersist == 3     \* PersistDocument calls in a run
MaxCalls == 2       \* calls of mergeSources on the same arguments
MaxFiles == 2       \* files in the directory given to IngestDirectory
LongLine == 600     \* characters in the long lines of the ingested documents
MaxTurns == 2       \* turns of an interactive chat session

----------------------------------------------------------------------------
(* Go strings *)

Nil == "nil"
Set == "set"

IsSpace(c) == c \in {" ", "\n", "\t", "\r"}

RECURSIVE TrimLeft(_)
TrimLeft(s) ==
    IF s = <<>> THEN <<>>
    ELSE IF IsSpace(Head(s)) THEN TrimLeft(Tail(s)) ELSE s

RECURSIVE TrimRight(_)
TrimRight(s) ==
    IF s = <<>> THEN <<>>
    ELSE IF IsSpace(s[Len(s)]) THEN TrimRight(SubSeq(s, 1, Len(s) - 1)) ELSE s

TrimSpace(s) == TrimRight(TrimLeft(s))

LowerOf(c) ==
    CASE c = "A" -> "a" [] c = "D" -> "d" [] c = "O" -> "o" [] c = "T" -> "t"
      [] c = "S" -> "s" [] c = "U" -> "u" [] c = "V" -> "v"
      [] c = "M" -> "m" [] c = "P" -> "p" [] c = "F" -> "f" [] c = "C" -> "c"
      [] OTHER -> c

ToLower(s) == [i \in 1..Len(s) |-> LowerOf(s[i])]

Contains(s, sub) ==
    \E i \in 0..(Len(s) - Len(sub)) : SubSeq(s, i + 1, i + Len(sub)) = sub

HasPrefix(s, p) == Len(s) >= Len(p) /\ SubSeq(s, 1, Len(p)) = p

RECURSIVE Join(_, _)
Join(texts, sep) ==
    IF texts = <<>> THEN <<>>
    ELSE IF Len(texts) = 1 THEN texts[1]
    ELSE texts[1] \o sep \o Join(Tail(texts), sep)

RECURSIVE Concat(_)
Concat(ss) == IF ss = <<>> THEN <<>> ELSE Head(ss) \o Concat(Tail(ss))

\* fmt.Sprintf("%d", n) for the small non-negative integers of the model
Digit(n) == CASE n = 0 -> "0" [] n = 1 -> "1" [] n = 2 -> "2" [] n = 3 -> "3"
              [] n = 4 -> "4" [] n = 5 -> "5" [] n = 6 -> "6" [] n = 7 -> "7"
              [] n = 8 -> "8" [] OTHER -> "9"

RECURSIVE Sprintf_d(_)
Sprintf_d(n) == IF n < 10 THEN <<Digit(n)>> ELSE Sprintf_d(n \div 10) \o <<Digit(n % 10)>>

----------------------------------------------------------------------------
(* chat: the retrieval merge engine (pure helpers of Service.chat) *)

ZeroInsight ==
    [ChunkCount |-> 0, Folders |-> <<>>, RelatedDocuments |-> <<>>,
     Sections |-> <<>>, Topics |-> <<>>]

snippetLimit == 500
Ellipsis == <<".", ".", ".">>
SnippetSeparator == <<"\n", "-", "-", "-", "\n">>

RECURSIVE normalizeFilters(_)
normalizeFilters(filters) ==
    IF filters = <<>> THEN <<>>
    ELSE LET trimmed == ToLower(TrimSpace(Head(filters)))
         IN  IF trimmed # <<>>
             THEN <<trimmed>> \o normalizeFilters(Tail(filters))
             ELSE normalizeFilters(Tail(filters))

\* the loop body of filterChunksBySections: does some normalized filter keep the chunk
sectionKeeps(chunk, normalized) ==
    LET trimmedTitle == ToLower(TrimSpace(chunk.SectionTitle))
        sectionTitle == IF trimmedTitle = <<>>
                        THEN <<"i","n","t","r","o","d","u","c","t","i","o","n">>
                        ELSE trimmedTitle
        order == Sprintf_d(chunk.SectionOrder)
    IN  \E i \in 1..Len(normalized) :
            \/ Contains(sectionTitle, normalized[i])
            \/ (normalized[i] # <<>> /\ order = normalized[i])

RECURSIVE keepSections(_, _)
keepSections(chunks, normalized) ==
    IF chunks = <<>> THEN <<>>
    ELSE IF sectionKeeps(Head(chunks), normalized)
         THEN <<Head(chunks)>> \o keepSections(Tail(chunks), normalized)
         ELSE keepSections(Tail(chunks), normalized)

filterChunksBySections(chunks, filters) ==
    LET normalized == normalizeFilters(filters)
    IN  IF Len(normalized) = 0 THEN chunks ELSE keepSections(chunks, normalized)

containsAny(values, filters) ==
    LET valueSet == {values[i] : i \in 1..Len(values)}
    IN  \E i \in 1..Len(filters) :
            \/ filters[i] \in valueSet
            \/ \E value \in valueSet : Contains(value, filters[i])

RECURSIVE keepTopics(_, _)
keepTopics(srcs, normalized) ==
    IF srcs = <<>> THEN <<>>
    ELSE LET source == Head(srcs)
             topics == [j \in 1..Len(source.Insight.Topics) |->
                            ToLower(TrimSpace(source.Insight.Topics[j]))]
         IN  IF containsAny(topics, normalized)
             THEN <<source>> \o keepTopics(Tail(srcs), normalized)
             ELSE keepTopics(Tail(srcs), normalized)

filterSourcesByTopics(srcs, filters) ==
    LET normalized == normalizeFilters(filters)
    IN  IF Len(normalized) = 0 THEN srcs ELSE keepTopics(srcs, normalized)

RECURSIVE unique(_)
unique(values) ==
    IF values = <<>> THEN <<>>
    ELSE LET front == unique(SubSeq(values, 1, Len(values) - 1))
             v == values[Len(values)]
         IN  IF \E i \in 1..Len(front) : front[i] = v THEN front ELSE front \o <<v>>

\* the first loop of mergeSources: the map `grouped` after chunks[1..n]
RECURSIVE groupSources(_, _, _)
groupSources(chunks, insightMap, n) ==
    IF n = 0 THEN <<>>
    ELSE LET grouped == groupSources(chunks, insightMap, n - 1)
             chunk == chunks[n]
             id == chunk.DocumentID
             ok == id \in DOMAIN grouped
             created == IF ok
                        THEN [grouped[id] EXCEPT
                                !.Score = IF chunk.Score > @ THEN chunk.Score ELSE @]
                        ELSE [DocumentID |-> id, Title |-> chunk.Title,
                              Path |-> chunk.Path, Snippet |-> <<>>,
                              Score |-> chunk.Score, Insight |-> ZeroInsight]
             trimmed == TrimSpace(chunk.Content)
             snippet == IF Len(trimmed) > snippetLimit
                        THEN SubSeq(trimmed, 1, snippetLimit) \o Ellipsis
                        ELSE trimmed
             withSnippet ==
                 IF created.Snippet = <<>>
                 THEN [created EXCEPT !.Snippet = snippet]
                 ELSE IF ~Contains(created.Snippet, snippet)
                      THEN [created EXCEPT !.Snippet = @ \o SnippetSeparator \o snippet]
                      ELSE created
             source == IF id \in DOMAIN insightMap
                       THEN [withSnippet EXCEPT !.Insight = insightMap[id]]
                       ELSE withSnippet
         IN  (id :> source) @@ grouped

\* mutant: the sources are returned as the map yields them, without the sort
mergeSources_unsorted(chunks, insightMap) ==
    LET grouped == groupSources(chunks, insightMap, Len(chunks))
        ids == DOMAIN grouped
        n == Cardinality(ids)
        orders == {o \in [1..n -> ids] : \A i, j \in 1..n : i # j => o[i] # o[j]}
    IN  {[i \in 1..n |-> grouped[o[i]]] : o \in orders}

\* mergeSources appends the map's values in Go's map iteration order, which the
\* runtime randomises, and sorts them with sort.Slice on Score alone: every
\* ordering of the grouped sources with non-increasing scores is a possible result.
mergeSources(chunks, insightMap) ==
    LET grouped == groupSources(chunks, insightMap, Len(chunks))
        ids == DOMAIN grouped
        n == Cardinality(ids)
        orders == {o \in [1..n -> ids] : \A i, j \in 1..n : i # j => o[i] # o[j]}
    IN  {[i \in 1..n |-> grouped[o[i]]] : o \in
            {o \in orders : \A i \in 1..n, j \in 1..n :
                                i < j => grouped[o[i]].Score >= grouped[o[j]].Score}}

\* buildContextPrompt renders, per source, its index, title, path, insight fields
\* and snippet; the rendering is kept as the list of rendered fields
buildContextPrompt(srcs) ==
    [idx \in 1..Len(srcs) |->
        [Index |-> idx, Title |-> srcs[idx].Title, Path |-> srcs[idx].Path,
         Insight |-> srcs[idx].Insight, Snippet |-> srcs[idx].Snippet]]

\* llm.Message
Message(role, msgContent) == [Role |-> role, Content |-> msgContent]

\* a message content: the question and context block of a user prompt, or plain text
Text(t) == [question |-> <<>>, context |-> <<>>, text |-> t]

systemPrompt == Text(<<"S">>)

formatUserPrompt(q, contextPrompt) ==
    [question |-> q, context |-> contextPrompt, text |-> <<>>]

----------------------------------------------------------------------------
(* chat: the values the collaborators and the caller supply *)

ChunkCatalog ==
    { [ChunkID |-> "c1", DocumentID |-> "d1", Title |-> "Doc One", Path |-> "doc1.md",
       Content |-> <<"x">>, Score |-> 9,
       SectionTitle |-> <<"O", "v">>, SectionLevel |-> 2, SectionOrder |-> 1],
      [ChunkID |-> "c2", DocumentID |-> "d2", Title |-> "Doc Two", Path |-> "doc2.md",
       Content |-> <<"y">>, Score |-> 9,
       SectionTitle |-> <<>>, SectionLevel |-> 1, SectionOrder |-> 0],
      [ChunkID |-> "c3", DocumentID |-> "d1", Title |-> "Doc One", Path |-> "doc1.md",
       Content |-> <<" ", "z">>, Score |-> 4,
       SectionTitle |-> <<"D", "e">>, SectionLevel |-> 2, SectionOrder |-> 2] }

\* vector-search results: distinct chunks, in any order
ChunkLists ==
    UNION { {r \in [1..n -> ChunkCatalog] : \A i, j \in 1..n : i # j => r[i] # r[j]}
            : n \in 0..MaxChunks }

TopicInsight ==
    [ZeroInsight EXCEPT !.ChunkCount = 4, !.Topics = << <<"T", "o", "p">> >>]
PlainInsight == [ZeroInsight EXCEPT !.ChunkCount = 1]

InsightMaps ==
    { <<>>, [d \in {"d1"} |-> TopicInsight],
      [d \in {"d1", "d2"} |-> IF d = "d1" THEN TopicInsight ELSE PlainInsight] }

SectionFilterLists == { <<>>, << <<" ">> >>, << <<" ", "O", "V">> >>, << <<"q">> >> }
TopicFilterLists == { <<>>, << <<"t", "o">> >>, << <<"q">> >> }

Questions == { <<" ">>, <<"w", " ">> }
Answers == { <<>>, <<" ", "A", " ">>, <<"A">> }
StreamContents == { <<>>, <<"A">>, <<" ">> }

\* the caller's history slice: its backing array (as long as the capacity) and length
PriorTurn ==
    << Message("user", formatUserPrompt(<<"p">>, <<>>)),
       Message("assistant", Text(<<"r">>)) >>
ZeroMessage == Message("", Text(<<>>))

RECURSIVE PriorTurns(_)
PriorTurns(n) == IF n = 0 THEN <<>> ELSE PriorTurn \o PriorTurns(n - 1)

Histories ==
    { [array |-> PriorTurns(n) \o spare, len |-> 2 * n] :
        n \in 0..MaxHistory, spare \in { <<>>, <<ZeroMessage, ZeroMessage>> } }

NoHistory == [array |-> <<>>, len |-> 0]

Elems(h) == SubSeq(h.array, 1, h.len)

Services ==
    [vectors : {Nil, Set}, graph : {Nil, Set}, embedder : {Nil, Set},
     llm : {Nil, "Client", "StreamClient"}]

----------------------------------------------------------------------------
(* ingestion: the chunker *)

defaultChunkSize == 1000
defaultChunkOverlap == 200

SectionMeta(title, level, order) == [Title |-> title, Level |-> level, Order |-> order]

Introduction == <<"I","n","t","r","o","d","u","c","t","i","o","n">>

RECURSIVE leadingHashes(_)
leadingHashes(line) ==
    IF line # <<>> /\ Head(line) = "#" THEN 1 + leadingHashes(Tail(line)) ELSE 0

headingLevel(line) ==
    LET level == leadingHashes(line)
    IN  IF level = 0 THEN 1 ELSE IF level > 6 THEN 6 ELSE level

\* a chunk fragment; units holds the paragraphs it was built from, which the Go
\* value keeps only joined in Text
buildChunkFragment(paragraphs) ==
    LET RECURSIVE pick(_, _)
        pick(section, i) ==
            IF i > Len(paragraphs) THEN section
            ELSE LET p == paragraphs[i]
                 IN  IF p.Section.Order > section.Order
                        \/ (section.Order = 0 /\ p.Section.Title # <<>>)
                     THEN pick(p.Section, i + 1)
                     ELSE pick(section, i + 1)
    IN  [Text |-> Join([i \in 1..Len(paragraphs) |-> paragraphs[i].Text], <<"\n", "\n">>),
         Section |-> pick(SectionMeta(Introduction, 1, 0), 1),
         units |-> paragraphs]

\* the loop of chunkParagraphs after paragraphs[1..n]
RECURSIVE packParagraphs(_, _, _, _)
packParagraphs(paragraphs, tgt, ovl, n) ==
    IF n = 0 THEN [fragments |-> <<>>, current |-> <<>>, currentLen |-> 0]
    ELSE LET st == packParagraphs(paragraphs, tgt, ovl, n - 1)
             paragraph == paragraphs[n]
             pLen == Len(paragraph.Text)
             flush == st.currentLen + pLen > tgt /\ Len(st.current) > 0
             last == st.current[Len(st.current)]
             carried == IF ~flush THEN st.current
                        ELSE IF ovl > 0 /\ Len(st.current) > 0 THEN <<last>> ELSE <<>>
             carriedLen == IF ~flush THEN st.currentLen
                           ELSE IF ovl > 0 /\ Len(st.current) > 0 THEN Len(last.Text) ELSE 0
         IN  [fragments |-> IF flush
                            THEN Append(st.fragments, buildChunkFragment(st.current))
                            ELSE st.fragments,
              current |-> Append(carried, paragraph),
              currentLen |-> carriedLen + pLen]

\* mutant: the overlap is ignored, every flush starts an empty buffer
chunkParagraphs_noOverlap(paragraphs, tgt0, ovl0) ==
    LET tgt == IF tgt0 <= 0 THEN defaultChunkSize ELSE tgt0
        st == packParagraphs(paragraphs, tgt, 0, Len(paragraphs))
    IN  IF Len(st.current) > 0
        THEN Append(st.fragments, buildChunkFragment(st.current))
        ELSE st.fragments

\* mutant: the buffer left after the last unit is not flushed
chunkParagraphs_noTail(paragraphs, tgt0, ovl0) ==
    LET tgt == IF tgt0 <= 0 THEN defaultChunkSize ELSE tgt0
        ovl == IF ovl0 < 0 THEN 0 ELSE ovl0
    IN  packParagraphs(paragraphs, tgt, ovl, Len(paragraphs)).fragments

chunkParagraphs(paragraphs, tgt0, ovl0) ==
    LET tgt == IF tgt0 <= 0 THEN defaultChunkSize ELSE tgt0
        ovl == IF ovl0 < 0 THEN 0 ELSE ovl0
        st == packParagraphs(paragraphs, tgt, ovl, Len(paragraphs))
    IN  IF Len(st.current) > 0
        THEN Append(st.fragments, buildChunkFragment(st.current))
        ELSE st.fragments

\* the line loop of ChunkMarkdown after lines[1..n]
RECURSIVE scanMarkdown(_, _)
scanMarkdown(lines, n) ==
    IF n = 0
    THEN [introSection |-> SectionMeta(Introduction, 1, 0),
          currentSection |-> SectionMeta(Introduction, 1, 0),
          sectionOrder |-> 0, introUsed |-> FALSE,
          sections |-> <<>>, paragraphs |-> <<>>, topics |-> <<>>]
    ELSE LET st == scanMarkdown(lines, n - 1)
             line == TrimSpace(lines[n])
             level == headingLevel(line)
             title == TrimSpace(SubSeq(line, level + 1, Len(line)))
             section == IF level <= 1
                        THEN SectionMeta(title, 1, 0)
                        ELSE SectionMeta(title, level, st.sectionOrder + 1)
             seen == \E i \in 1..Len(st.topics) : st.topics[i].Name = title
         IN  IF line = <<>> THEN st
             ELSE IF HasPrefix(line, <<"#">>)
             THEN IF title = <<>> THEN st
                  ELSE [introSection |-> IF level <= 1
                                         THEN [st.introSection EXCEPT !.Title = title]
                                         ELSE st.introSection,
                        currentSection |-> section,
                        sectionOrder |-> IF level <= 1 THEN st.sectionOrder
                                         ELSE st.sectionOrder + 1,
                        introUsed |-> st.introUsed \/ section.Order = 0,
                        sections |-> IF level <= 1 THEN st.sections
                                     ELSE Append(st.sections, section),
                        paragraphs |-> Append(st.paragraphs,
                                              [Text |-> title, Section |-> section]),
                        topics |-> IF level = 2 /\ ~seen
                                   THEN Append(st.topics, [Name |-> title])
                                   ELSE st.topics]
             ELSE [st EXCEPT
                     !.paragraphs = Append(@, [Text |-> line, Section |-> st.currentSection]),
                     !.introUsed = @ \/ st.currentSection.Order = 0]

\* mutant: the lead section is listed whether or not a unit was tagged with it
ChunkMarkdown_alwaysIntro(lines, tgt, ovl) ==
    LET st == scanMarkdown(lines, Len(lines))
        top == SectionMeta(st.introSection.Title, st.introSection.Level,
                           st.introSection.Order)
    IN  [fn |-> "ChunkMarkdown",
         fragments |-> chunkParagraphs(st.paragraphs, tgt, ovl),
         sections |-> <<top>> \o st.sections,
         topics |-> st.topics,
         paragraphs |-> st.paragraphs]

\* content is the document split into lines at "\n" (after "\r\n" became "\n")
ChunkMarkdown(lines, tgt, ovl) ==
    LET st == scanMarkdown(lines, Len(lines))
        top == SectionMeta(st.introSection.Title, st.introSection.Level,
                           st.introSection.Order)
    IN  [fn |-> "ChunkMarkdown",
         fragments |-> chunkParagraphs(st.paragraphs, tgt, ovl),
         sections |-> IF st.introUsed THEN <<top>> \o st.sections ELSE st.sections,
         topics |-> st.topics,
         paragraphs |-> st.paragraphs]

\* the line loop of ChunkPlainText after lines[1..n]
RECURSIVE scanPlainText(_, _, _)
scanPlainText(lines, section, n) ==
    IF n = 0 THEN [paragraphs |-> <<>>, current |-> <<>>]
    ELSE LET st == scanPlainText(lines, section, n - 1)
             trimmed == TrimSpace(lines[n])
         IN  IF trimmed = <<>>
             THEN IF Len(st.current) = 0 THEN st
                  ELSE [paragraphs |-> Append(st.paragraphs,
                                              [Text |-> Join(st.current, <<"\n">>),
                                               Section |-> section]),
                        current |-> <<>>]
             ELSE [st EXCEPT !.current = Append(@, trimmed)]

ChunkPlainText(lines, title, tgt, ovl) ==
    LET section == SectionMeta(title, 1, 0)
        st == scanPlainText(lines, section, Len(lines))
        paragraphs == IF Len(st.current) = 0 THEN st.paragraphs
                      ELSE Append(st.paragraphs,
                                  [Text |-> Join(st.current, <<"\n">>), Section |-> section])
    IN  [fn |-> "ChunkPlainText",
         fragments |-> chunkParagraphs(paragraphs, tgt, ovl),
         sections |-> <<section>>,
         topics |-> <<>>,
         paragraphs |-> paragraphs]

\* the inputs the chunker is run on
Lines ==
    { <<>>, <<"a">>, <<"b", "b">>, <<" ", "c">>,
      <<"#", " ", "T">>, <<"#", "#", " ", "S">>, <<"#", "#", "#", " ", "U">>,
      <<"#", "#">> }
Documents == UNION { [1..n -> Lines] : n \in 0..MaxLines }
Targets == {0, 1, 3}
Overlaps == {-1, 0, 1, 3}
Titles == { <<>>, <<"T">> }

NotChunked ==
    [fn |-> "none", fragments |-> <<>>, sections |-> <<>>, topics |-> <<>>,
     paragraphs |-> <<>>]

CallChunkMarkdown ==
    /\ chunked = NotChunked
    /\ chunked' = ChunkMarkdown(content, target, overlap)
    /\ UNCHANGED <<content, target, overlap>>

CallChunkPlainText ==
    /\ chunked = NotChunked
    /\ \E title \in Titles : chunked' = ChunkPlainText(content, title, target, overlap)
    /\ UNCHANGED <<content, target, overlap>>

----------------------------------------------------------------------------
(* ingestion: PersistDocument, and knowledge.SyncDocument behind it *)

\* the parsed documents handed to PersistDocument: two versions of one path
Intro == SectionMeta(<<"T">>, 1, 0)
Setup == SectionMeta(<<"S">>, 2, 1)
Fragment(text, section) == [Text |-> text, Section |-> section]
DocumentResult(hash, fragments, sections, topics) ==
    [RelPath |-> "p", Title |-> <<"T">>, Hash |-> hash, Folder |-> "",
     Fragments |-> fragments, Sections |-> sections, Topics |-> topics]
Results ==
    { DocumentResult("h1", <<Fragment(<<"x">>, Intro)>>, <<Intro>>, <<>>),
      DocumentResult("h2", <<Fragment(<<"y">>, Intro), Fragment(<<"z">>, Setup)>>,
                     <<Intro, Setup>>, <<[Name |-> <<"S">>]>>) }

\* uuid.New() for the row of a path: one id per path, never reused
NewID(path) == <<"id", path>>

\* where a call can be failed by the database or the graph server
TxFaults == {"ensure schema", "begin tx", "query document", "clear existing chunks",
             "insert chunk", "commit transaction"}
SyncFaults == {"sync knowledge graph", "topic cleanup"}
Faults == {Nil} \cup TxFaults \cup SyncFaults

EmptyGraph == [documents |-> {}, sections |-> {}, chunks |-> {}, topics |-> {}]

\* mutant: the stored hash is not compared, every call rewrites the document
upsertDocument_always(rows, path, title, sha) ==
    LET existing == {r \in rows : r.source_path = path}
        row == CHOOSE r \in existing : TRUE
    IN  IF existing = {}
        THEN [docID |-> NewID(path), changed |-> TRUE,
              rows |-> rows \cup {[id |-> NewID(path), source_path |-> path,
                                   title |-> title, sha256 |-> sha]}]
        ELSE [docID |-> row.id, changed |-> TRUE,
              rows |-> (rows \ {row}) \cup {[row EXCEPT !.title = title, !.sha256 = sha]}]

\* mutant: the UPDATE of a changed document leaves sha256 as it was
upsertDocument_keepsHash(rows, path, title, sha) ==
    LET existing == {r \in rows : r.source_path = path}
        row == CHOOSE r \in existing : TRUE
    IN  IF existing = {}
        THEN [docID |-> NewID(path), changed |-> TRUE,
              rows |-> rows \cup {[id |-> NewID(path), source_path |-> path,
                                   title |-> title, sha256 |-> sha]}]
        ELSE IF row.sha256 = sha
        THEN [docID |-> row.id, changed |-> FALSE, rows |-> rows]
        ELSE [docID |-> row.id, changed |-> TRUE,
              rows |-> (rows \ {row}) \cup {[row EXCEPT !.title = title]}]

\* upsertDocument on the rows of rag_documents, inside the transaction
upsertDocument(rows, path, title, sha) ==
    LET existing == {r \in rows : r.source_path = path}
        row == CHOOSE r \in existing : TRUE
    IN  IF existing = {}
        THEN [docID |-> NewID(path), changed |-> TRUE,
              rows |-> rows \cup {[id |-> NewID(path), source_path |-> path,
                                   title |-> title, sha256 |-> sha]}]
        ELSE IF row.sha256 = sha
        THEN [docID |-> row.id, changed |-> FALSE, rows |-> rows]
        ELSE [docID |-> row.id, changed |-> TRUE,
              rows |-> (rows \ {row}) \cup {[row EXCEPT !.title = title, !.sha256 = sha]}]

\* sectionIDs[fragment.Section.Order]: the section node a chunk is linked to,
\* named by its order, or -1 when the result lists no section of that order
sectionID(result, fragment) ==
    IF \E i \in 1..Len(result.Sections) : result.Sections[i].Order = fragment.Section.Order
    THEN fragment.Section.Order
    ELSE -1

\* the write transaction of SyncDocument
SyncDocument(g, doc) ==
    [documents |-> {d \in g.documents : d.id # doc.ID}
                   \cup {[id |-> doc.ID, path |-> doc.Path, title |-> doc.Title,
                          sha256 |-> doc.SHA]},
     sections |-> {x \in g.sections : x.doc # doc.ID}
                  \cup {[doc |-> doc.ID, title |-> doc.Sections[i].Title,
                         level |-> doc.Sections[i].Level,
                         order |-> doc.Sections[i].Order] : i \in 1..Len(doc.Sections)},
     topics |-> {x \in g.topics : x.doc # doc.ID}
                \cup {[doc |-> doc.ID, name |-> doc.Topics[i].Name] :
                        i \in {j \in 1..Len(doc.Topics) : doc.Topics[j].Name # <<>>}},
     chunks |-> {x \in g.chunks : x.doc # doc.ID}
                \cup {[doc |-> doc.ID, index |-> doc.Chunks[i].Index,
                       text |-> doc.Chunks[i].Text,
                       section |-> doc.Chunks[i].SectionID] : i \in 1..Len(doc.Chunks)}]

\* one call of PersistDocument on result, failed at fault (Nil: nothing fails)
Persist(result, fault) ==
    LET up == upsertDocument(rag_documents, result.RelPath, result.Title, result.Hash)
        chunkNodes ==
            IF up.changed
            THEN [i \in 1..Len(result.Fragments) |->
                    [Index |-> i - 1, Text |-> result.Fragments[i].Text,
                     SectionID |-> sectionID(result, result.Fragments[i])]]
            ELSE <<>>
        inserted ==
            {[document_id |-> up.docID, chunk_index |-> i - 1,
              section_order |-> result.Fragments[i].Section.Order,
              section_level |-> result.Fragments[i].Section.Level,
              section_title |-> result.Fragments[i].Section.Title,
              content |-> result.Fragments[i].Text] : i \in 1..Len(result.Fragments)}
        doc == [ID |-> up.docID, Path |-> result.RelPath, Title |-> result.Title,
                SHA |-> result.Hash, Folder |-> result.Folder, Chunks |-> chunkNodes,
                Sections |-> result.Sections, Topics |-> result.Topics]
        committed == fault \notin TxFaults
        syncs == committed /\ Len(chunkNodes) > 0
        err == IF fault = "topic cleanup" THEN "sync knowledge graph" ELSE fault
    IN  /\ fault \in {"clear existing chunks", "insert chunk"} => up.changed
        /\ fault \in SyncFaults => syncs
        /\ rag_documents' = IF committed THEN up.rows ELSE rag_documents
        /\ rag_chunks' = IF committed /\ up.changed
                         THEN {c \in rag_chunks : c.document_id # up.docID} \cup inserted
                         ELSE rag_chunks
        /\ graph' = IF syncs /\ fault # "sync knowledge graph"
                    THEN SyncDocument(graph, doc)
                    ELSE graph
        /\ persisted' = Append(persisted,
                               [result |-> result, changed |-> up.changed,
                                synced |-> syncs, err |-> err,
                                count |-> IF fault = Nil THEN Len(chunkNodes) ELSE 0])

PersistDocument ==
    /\ Len(persisted) < MaxPersist
    /\ \E result \in Results, fault \in Faults : Persist(result, fault)

----------------------------------------------------------------------------
(* chat: Service.chat as a state machine *)

Unset == [set |-> FALSE, err |-> FALSE, val |-> <<>>]
Answered(err, val) == [set |-> TRUE, err |-> err, val |-> val]

\* a stub answers the same on every call
Stub(configured, o) == configured.set => o = configured

EmbedOutcomes == { Answered(TRUE, <<>>), Answered(FALSE, <<>>), Answered(FALSE, <<1>>) }
SearchOutcomes == { Answered(TRUE, <<>>) } \cup { Answered(FALSE, r) : r \in ChunkLists }
InsightOutcomes == { Answered(TRUE, <<>>) } \cup { Answered(FALSE, m) : m \in InsightMaps }
GenerateOutcomes == { Answered(TRUE, <<>>) } \cup { Answered(FALSE, a) : a \in Answers }

\* one iteration of the read loop of GenerateStream: the read fails (a decode
\* error, a cancelled context, an error chunk), the stream ends, or a response
\* arrives with its content and done flag
StreamResponses ==
    { [kind |-> "error", content |-> <<>>, done |-> FALSE],
      [kind |-> "eof", content |-> <<>>, done |-> FALSE] }
    \cup { [kind |-> "chunk", content |-> c, done |-> d] :
              c \in StreamContents, d \in BOOLEAN }

Event(op, arg, ok) == [op |-> op, arg |-> arg, ok |-> ok]

NoInput == [question |-> <<>>, cfg |-> [SectionFilters |-> <<>>, TopicFilters |-> <<>>],
            history |-> NoHistory, streamFn |-> Nil]
NoLocals == [chunks |-> <<>>, insights |-> <<>>, sources |-> <<>>, messages |-> <<>>,
             userMessage |-> ZeroMessage, answer |-> <<>>, builder |-> <<>>]
Pending == [err |-> "pending", Answer |-> <<>>, Sources |-> <<>>, history |-> <<>>]
NoPrev == [set |-> FALSE, ret |-> Pending, trace |-> <<>>, sources |-> <<>>]

\* mutant: a failed turn returns what the stream has accumulated
Failure_partial(err) ==
    [err |-> err, Answer |-> loc.builder, Sources |-> <<>>, history |-> <<>>]

\* return Response{}, nil, err
Failure(err) == [err |-> err, Answer |-> <<>>, Sources |-> <<>>, history |-> <<>>]

Returns(events, result) == trace' = trace \o events \o <<Event("return", <<>>, result.err = Nil)>>

Fails(events, err) ==
    /\ ret' = Failure(err)
    /\ pc' = "done"
    /\ Returns(events, Failure(err))

\* mutant: append(history, userMessage, assistantMessage), which writes into the
\* caller's backing array when its capacity allows
updatedHistory_inPlace(history, userMessage, assistantMessage) ==
    [elems |-> Elems(history) \o <<userMessage, assistantMessage>>,
     array |-> IF Len(history.array) >= history.len + 2
               THEN [i \in 1..Len(history.array) |->
                        IF i = history.len + 1 THEN userMessage
                        ELSE IF i = history.len + 2 THEN assistantMessage
                        ELSE history.array[i]]
               ELSE history.array]

\* lines 242-246: the new slice and what has become of the caller's backing array
updatedHistory(history, userMessage, assistantMessage) ==
    [elems |-> Elems(history) \o <<userMessage, assistantMessage>>,
     array |-> history.array]

\* lines 239-248
Succeeds(events, generated) ==
    LET answer == TrimSpace(generated)
        assistantMessage == Message("assistant", Text(answer))
        updated == updatedHistory(input.history, loc.userMessage, assistantMessage)
        result == [err |-> Nil, Answer |-> answer, Sources |-> loc.sources,
                   history |-> updated.elems]
    IN  /\ ret' = result
        /\ pc' = "done"
        /\ input' = [input EXCEPT !.history.array = updated.array]
        /\ Returns(events, result)

\* mutant: the LLM client is looked at only when the answer is generated
validationError_lateLLM(q) ==
    IF TrimSpace(q) = <<>> THEN "question cannot be empty"
    ELSE IF svc.embedder = Nil THEN "embedder is not configured"
    ELSE IF svc.vectors = Nil THEN "vector store is not configured"
    ELSE Nil

\* the checks of chat before its first external call
validationError(q) ==
    IF TrimSpace(q) = <<>> THEN "question cannot be empty"
    ELSE IF svc.embedder = Nil THEN "embedder is not configured"
    ELSE IF svc.vectors = Nil THEN "vector store is not configured"
    ELSE IF svc.llm = Nil THEN "llm client is not configured"
    ELSE Nil

\* lines 123-135: the turn up to its first external call
validate(q, cfg, history, streamFn) ==
    LET err == validationError(q)
    IN  /\ input' = [question |-> q, cfg |-> cfg, history |-> history,
                     streamFn |-> streamFn]
        /\ loc' = NoLocals
        /\ IF err # Nil
           THEN /\ ret' = Failure(err)
                /\ pc' = "done"
                /\ trace' = <<Event("return", <<>>, FALSE)>>
           ELSE /\ ret' = Pending
                /\ pc' = "embed"
                /\ trace' = <<>>

\* Service.Chat
Chat ==
    /\ pc = "idle"
    /\ \E q \in Questions, sf \in SectionFilterLists, tf \in TopicFilterLists :
          validate(q, [SectionFilters |-> sf, TopicFilters |-> tf], NoHistory, Nil)
    /\ UNCHANGED <<svc, env, prev>>

\* Service.ChatStream
ChatStream ==
    /\ pc = "idle"
    /\ \E q \in Questions, sf \in SectionFilterLists, tf \in TopicFilterLists,
          h \in Histories, fn \in {Nil, Set} :
          validate(q, [SectionFilters |-> sf, TopicFilters |-> tf], h, fn)
    /\ UNCHANGED <<svc, env, prev>>

\* the caller repeats a finished callback turn, with the same arguments and
\* collaborators, without a callback
ChatAgain ==
    /\ pc = "done"
    /\ ~prev.set
    /\ input.streamFn # Nil
    /\ svc.llm = "Client"
    /\ prev' = [set |-> TRUE, ret |-> ret, trace |-> trace, sources |-> loc.sources]
    /\ validate(input.question, input.cfg, input.history, Nil)
    /\ UNCHANGED <<svc, env>>

\* mutant: the error of Embed is not checked
embedError_unchecked(o) ==
    IF ~o.err /\ Len(o.val) = 0 THEN "embedder returned no vectors" ELSE Nil

\* lines 143-148: which failure, if any, the answer of Embed is
embedError(o) ==
    IF o.err THEN "embed question"
    ELSE IF Len(o.val) = 0 THEN "embedder returned no vectors"
    ELSE Nil

\* lines 142-148
Embed ==
    /\ pc = "embed"
    /\ \E o \in EmbedOutcomes :
          /\ Stub(env.embed, o)
          /\ env' = [env EXCEPT !.embed = o]
          /\ LET call == <<Event("Embed", <<>>, ~o.err)>>
             IN  IF embedError(o) # Nil THEN Fails(call, embedError(o))
                 ELSE /\ pc' = "search"
                      /\ trace' = trace \o call
                      /\ UNCHANGED ret
    /\ UNCHANGED <<svc, input, loc, prev>>

\* mutant: the section filter is applied to an empty search result too
sectionFilterApplies_always(cfg, chunks) == Len(cfg.SectionFilters) > 0

\* line 161
sectionFilterApplies(cfg, chunks) == Len(cfg.SectionFilters) > 0 /\ Len(chunks) # 0

\* line 175
queriesGraph(docIDs) == svc.graph # Nil /\ Len(docIDs) > 0

\* mutant: the topic filter is never applied
topicFilterApplies_never(cfg, sources) == FALSE

\* line 185
topicFilterApplies(cfg, sources) == Len(cfg.TopicFilters) > 0 /\ Len(sources) > 0

\* lines 184-204: merge, topic filter, prompt assembly
merge(events, chunks, insights) ==
    \E merged \in mergeSources(chunks, insights) :
        LET applies == topicFilterApplies(input.cfg, merged)
            filteredSources == filterSourcesByTopics(merged, input.cfg.TopicFilters)
            sources == IF applies THEN filteredSources ELSE merged
            contextPrompt == IF Len(sources) > 0 THEN buildContextPrompt(sources) ELSE <<>>
            userMessage ==
                Message("user", formatUserPrompt(TrimSpace(input.question), contextPrompt))
            messages == <<Message("system", systemPrompt)>> \o Elems(input.history)
                            \o <<userMessage>>
        IN  IF applies /\ Len(filteredSources) = 0
            THEN /\ Fails(events, "no documents matched the requested topics")
                 /\ loc' = [loc EXCEPT !.chunks = chunks, !.insights = insights]
            ELSE /\ loc' = [loc EXCEPT !.chunks = chunks, !.insights = insights,
                                       !.sources = sources, !.messages = messages,
                                       !.userMessage = userMessage]
                 /\ pc' = "generate"
                 /\ trace' = trace \o events
                 /\ UNCHANGED ret

\* lines 150-172 (and on to line 204 when the graph store is not queried)
SimilarChunks ==
    /\ pc = "search"
    /\ \E o \in SearchOutcomes :
          /\ Stub(env.search, o)
          /\ env' = [env EXCEPT !.search = o]
          /\ LET call == <<Event("SimilarChunks", <<>>, ~o.err)>>
                 applies == sectionFilterApplies(input.cfg, o.val)
                 filtered == filterChunksBySections(o.val, input.cfg.SectionFilters)
                 chunks == IF applies THEN filtered ELSE o.val
                 docIDs == [i \in 1..Len(chunks) |-> chunks[i].DocumentID]
             IN  IF o.err
                 THEN Fails(call, "vector search") /\ UNCHANGED loc
                 ELSE IF applies /\ Len(filtered) = 0
                 THEN /\ Fails(call, "no chunks matched the requested sections")
                      /\ UNCHANGED loc
                 ELSE IF queriesGraph(docIDs)
                 THEN /\ pc' = "insights"
                      /\ loc' = [loc EXCEPT !.chunks = chunks]
                      /\ trace' = trace \o call
                      /\ UNCHANGED ret
                 ELSE merge(call, chunks, <<>>)
    /\ UNCHANGED <<svc, input, prev>>

\* lines 174-204
DocumentInsights ==
    /\ pc = "insights"
    /\ \E o \in InsightOutcomes :
          /\ Stub(env.graph, o)
          /\ env' = [env EXCEPT !.graph = o]
          /\ LET docIDs == [i \in 1..Len(loc.chunks) |-> loc.chunks[i].DocumentID]
             IN  merge(<<Event("DocumentInsights", unique(docIDs), ~o.err)>>, loc.chunks,
                       IF o.err THEN <<>> ELSE o.val)
    /\ UNCHANGED <<svc, input, prev>>

streams == input.streamFn # Nil /\ svc.llm = "StreamClient"

\* lines 221-226 and 231-237: one Generate call
Generate ==
    /\ pc = "generate"
    /\ ~streams
    /\ \E o \in GenerateOutcomes :
          /\ Stub(env.generate, o)
          /\ env' = [env EXCEPT !.generate = o]
          /\ LET call == <<Event("Generate", o.val, ~o.err)>>
             IN  IF o.err THEN Fails(call, "llm generate") /\ UNCHANGED <<input, loc>>
                 ELSE IF input.streamFn # Nil
                 THEN /\ pc' = "callback"
                      /\ loc' = [loc EXCEPT !.answer = o.val]
                      /\ trace' = trace \o call
                      /\ UNCHANGED <<ret, input>>
                 ELSE Succeeds(call, o.val) /\ UNCHANGED loc
    /\ UNCHANGED <<svc, prev>>

\* mutant: the callback is given the trimmed answer
FallbackCallback_trimmed ==
    /\ pc = "callback"
    /\ \E cbOK \in BOOLEAN :
          LET call == <<Event("streamFn", TrimSpace(loc.answer), cbOK)>>
          IN  IF cbOK THEN Succeeds(call, loc.answer)
              ELSE Fails(call, "stream callback") /\ UNCHANGED input
    /\ UNCHANGED <<svc, env, loc, prev>>

\* lines 227-229: the whole answer goes to the callback
FallbackCallback ==
    /\ pc = "callback"
    /\ \E cbOK \in BOOLEAN :
          LET call == <<Event("streamFn", loc.answer, cbOK)>>
          IN  IF cbOK THEN Succeeds(call, loc.answer)
              ELSE Fails(call, "stream callback") /\ UNCHANGED input
    /\ UNCHANGED <<svc, env, loc, prev>>

\* line 210 and GenerateStream up to its read loop: the request is sent
GenerateStream ==
    /\ pc = "generate"
    /\ streams
    /\ \E sent \in BOOLEAN :
          LET call == <<Event("GenerateStream", <<>>, sent)>>
          IN  IF sent
              THEN /\ pc' = "streaming"
                   /\ trace' = trace \o call
                   /\ UNCHANGED ret
              ELSE Fails(call, "llm stream generate")
    /\ UNCHANGED <<svc, input, env, loc, prev>>

\* mutant: the chunk is passed on without being accumulated
streamWrapper_forgets(builder, chunk) ==
    IF chunk = <<>>
    THEN [builder |-> builder, invoked |-> FALSE]
    ELSE [builder |-> builder, invoked |-> TRUE]

\* lines 210-216: the callback Service.chat hands to GenerateStream
streamWrapper(builder, chunk) ==
    IF chunk = <<>>
    THEN [builder |-> builder, invoked |-> FALSE]
    ELSE [builder |-> builder \o chunk, invoked |-> TRUE]

Emitted == SelectSeq(trace, LAMBDA e : e.op = "recv" /\ e.ok)

\* one iteration of the read loop of GenerateStream
StreamRecv ==
    /\ pc = "streaming"
    /\ \E r \in StreamResponses, cbOK \in BOOLEAN :
          LET recv == <<Event("recv", r.content, r.kind = "chunk")>>
              fn == IF r.content # <<>> THEN streamWrapper(loc.builder, r.content)
                    ELSE [builder |-> loc.builder, invoked |-> FALSE]
              events == IF fn.invoked
                        THEN recv \o <<Event("streamFn", r.content, cbOK)>>
                        ELSE recv
          IN  /\ r.kind = "chunk" => Len(Emitted) < MaxStream
              /\ ~fn.invoked => cbOK
              /\ loc' = [loc EXCEPT !.builder = fn.builder]
              /\ IF r.kind = "error"
                 THEN Fails(<<Event("recv", <<>>, FALSE)>>, "llm stream generate")
                      /\ UNCHANGED input
                 ELSE IF r.kind = "eof"
                 THEN Succeeds(<<>>, loc.builder)
                 ELSE IF ~cbOK
                 THEN Fails(events, "llm stream generate") /\ UNCHANGED input
                 ELSE IF r.done
                 THEN Succeeds(events, fn.builder)
                 ELSE /\ trace' = trace \o events
                      /\ UNCHANGED <<pc, ret, input>>
    /\ UNCHANGED <<svc, env, prev>>

----------------------------------------------------------------------------
(* ingestion: formats, parsers and IngestDocument *)

\* the largest index of c in s, 0 when c does not occur
LastIndex(s, c) ==
    LET at == {i \in 1..Len(s) : s[i] = c}
    IN  IF at = {} THEN 0 ELSE CHOOSE i \in at : \A j \in at : j <= i

\* filepath.Base and filepath.Ext of a non-empty path without a trailing slash
Base(path) == SubSeq(path, LastIndex(path, "/") + 1, Len(path))
Ext(path) ==
    LET base == Base(path)
        dot == LastIndex(base, ".")
    IN  IF dot = 0 THEN <<>> ELSE SubSeq(base, dot, Len(base))

FormatUnknown == ""
FormatMarkdown == "markdown"
FormatPDF == "pdf"
FormatCSV == "csv"

DetectFormat(path) ==
    LET ext == ToLower(Ext(path))
    IN  IF ext \in { <<".", "m", "d">>, <<".", "m", "a", "r", "k", "d", "o", "w", "n">> }
        THEN FormatMarkdown
        ELSE IF ext = <<".", "p", "d", "f">> THEN FormatPDF
        ELSE IF ext = <<".", "c", "s", "v">> THEN FormatCSV
        ELSE FormatUnknown

\* strings.TrimLeft(s, "#")
RECURSIVE TrimLeftHashes(_)
TrimLeftHashes(s) ==
    IF s # <<>> /\ Head(s) = "#" THEN TrimLeftHashes(Tail(s)) ELSE s

RECURSIVE ExtractTitle(_, _)
ExtractTitle(lines, fallback) ==
    IF lines = <<>> THEN fallback
    ELSE LET trimmed == TrimSpace(Head(lines))
         IN  IF HasPrefix(trimmed, <<"#">>)
             THEN TrimSpace(TrimLeftHashes(trimmed))
             ELSE ExtractTitle(Tail(lines), fallback)

\* strings.TrimSuffix(filepath.Base(path), filepath.Ext(path))
BaseName(path) == SubSeq(Base(path), 1, Len(Base(path)) - Len(Ext(path)))

\* strings.TrimRight(line, " \t")
RECURSIVE TrimRightBlanks(_)
TrimRightBlanks(s) ==
    IF s # <<>> /\ s[Len(s)] \in {" ", "\t"}
    THEN TrimRightBlanks(SubSeq(s, 1, Len(s) - 1)) ELSE s

normalizePlainText(lines) == [i \in 1..Len(lines) |-> TrimRightBlanks(lines[i])]

RECURSIVE firstNonEmptyLine(_)
firstNonEmptyLine(lines) ==
    IF lines = <<>> THEN <<>>
    ELSE IF TrimSpace(Head(lines)) # <<>> THEN TrimSpace(Head(lines))
    ELSE firstNonEmptyLine(Tail(lines))

\* ParsedDocument, or the parser's error.  payload.Data is the file's bytes:
\* its SHA-256, whether a PDF reader can open it, and the lines of its text
Parsed(title, chunks) ==
    [err |-> Nil, Title |-> title, Fragments |-> chunks.fragments,
     Sections |-> chunks.sections, Topics |-> chunks.topics]

ParseError(err) ==
    [err |-> err, Title |-> <<>>, Fragments |-> <<>>, Sections |-> <<>>, Topics |-> <<>>]

markdownParser(payload) ==
    Parsed(ExtractTitle(payload.Data.lines, Base(payload.Path)),
           ChunkMarkdown(payload.Data.lines, defaultChunkSize, defaultChunkOverlap))

pdfParser(payload) ==
    IF ~payload.Data.pdf THEN ParseError("open pdf")
    ELSE LET plain == normalizePlainText(payload.Data.lines)
             first == firstNonEmptyLine(plain)
             title == IF first = <<>> THEN BaseName(payload.Path) ELSE first
         IN  Parsed(title, ChunkPlainText(plain, title, defaultChunkSize, defaultChunkOverlap))

RECURSIVE firstNonEmpty(_)
firstNonEmpty(values) ==
    IF values = <<>> THEN <<>>
    ELSE IF TrimSpace(Head(values)) # <<>> THEN TrimSpace(Head(values))
    ELSE firstNonEmpty(Tail(values))

\* formatCSVRow; idx counts the rows from 0
formatCSVRow(headers, row, idx) ==
    LET limit == IF Len(row) < Len(headers) THEN Len(row) ELSE Len(headers)
        header(i) == IF TrimSpace(headers[i]) = <<>>
                     THEN <<"C", "o", "l", "u", "m", "n", " ">> \o Sprintf_d(i)
                     ELSE TrimSpace(headers[i])
        column(i) == header(i) \o <<":", " ">> \o TrimSpace(row[i])
        extra(i) == <<"\n", "E", "x", "t", "r", "a", " ">> \o Sprintf_d(i)
                    \o <<":", " ">> \o TrimSpace(row[i])
    IN  <<"R", "o", "w", " ">> \o Sprintf_d(idx + 1)
        \o (IF Len(headers) > 0 THEN <<"\n">> ELSE <<>>)
        \o Join([i \in 1..limit |-> column(i)], <<"\n">>)
        \o Concat([i \in 1..(Len(row) - Len(headers)) |-> extra(Len(headers) + i)])

Rows == <<"R", "o", "w", "s">>

\* csvParser.Parse; payload.Data.csv is what csv.Reader.ReadAll makes of the
\* bytes, an error or the records
csvParser(payload) ==
    LET records == payload.Data.csv.records
        headers == records[1]
        rows == Tail(records)
        headerTitle == firstNonEmpty(headers)
        section == SectionMeta(Rows, 1, 0)
        names == [i \in 1..Len(headers) |-> [Name |-> TrimSpace(headers[i])]]
        paragraphs == [i \in 1..Len(rows) |->
                         [Text |-> formatCSVRow(headers, rows[i], i - 1),
                          Section |-> section]]
    IN  IF payload.Data.csv.err # Nil THEN ParseError("parse csv")
        ELSE IF Len(records) = 0
        THEN [err |-> Nil, Title |-> BaseName(payload.Path), Fragments |-> <<>>,
              Sections |-> <<>>, Topics |-> <<>>]
        ELSE [err |-> Nil,
              Title |-> IF headerTitle # <<>> THEN headerTitle
                        ELSE BaseName(payload.Path),
              Fragments |-> chunkParagraphs(paragraphs, defaultChunkSize,
                                            defaultChunkOverlap),
              Sections |-> <<section>>,
              Topics |-> SelectSeq(names, LAMBDA t : t.Name # <<>>)]

\* s.parsers[format].Parse
Parse(format, payload) ==
    CASE format = FormatMarkdown -> markdownParser(payload)
      [] format = FormatPDF -> pdfParser(payload)
      [] format = FormatCSV -> csvParser(payload)

\* filepath.Rel(root, path) for a path that lies under root, then ToSlash
Rel(root, path) ==
    IF HasPrefix(path, root \o <<"/">>)
    THEN SubSeq(path, Len(root) + 2, Len(path))
    ELSE path

\* path.Dir of a clean path
Dir(path) ==
    LET slash == LastIndex(path, "/")
    IN  IF slash = 0 THEN <<".">>
        ELSE IF slash = 1 THEN <<"/">>
        ELSE SubSeq(path, 1, slash - 1)

ErrNoChunks == "document produced no chunks"

\* what an embedder can answer to Embed(texts): an error, or vectors, as many
\* as the texts or one fewer or one more.  <<"vector", i>> is the i-th vector
\* of the answer
Replies == {"vectors", "error", "short", "long"}
Embedder_Embed(reply, texts) ==
    LET n == CASE reply = "short" -> Len(texts) - 1
               [] reply = "long" -> Len(texts) + 1
               [] OTHER -> Len(texts)
    IN  IF reply = "error"
        THEN [err |-> "embed", vectors |-> <<>>]
        ELSE [err |-> Nil, vectors |-> [i \in 1..n |-> <<"vector", i>>]]

NoResult == [RelPath |-> <<>>]
Ingested(err, result, calls) == [err |-> err, result |-> result, calls |-> calls]

\* mutant: the number of embeddings is not compared with the number of fragments
countMismatch_unchecked(embeddings, fragments) == FALSE

countMismatch(embeddings, fragments) == Len(embeddings) # Len(fragments)

\* mutant: the digest covers the path as well as the data
contentHash_withPath(payload) == <<payload.Path, payload.Data.sha>>

\* hex(sha256.Sum256(payload.Data))
contentHash(payload) == payload.Data.sha

\* mutant: the embedder is called before the parser's answer is looked at
embedFragments_embedsFirst(payload, relPath, folder, parsed, reply) ==
    LET parse == Event("Parse", payload.Path, parsed.err = Nil)
        title == IF parsed.Title = <<>> THEN Base(payload.Path) ELSE parsed.Title
        texts == [i \in 1..Len(parsed.Fragments) |-> parsed.Fragments[i].Text]
        embedded == Embedder_Embed(reply, texts)
        embed == [op |-> "Embed", arg |-> texts, ok |-> embedded.err = Nil,
                  vectors |-> embedded.vectors]
    IN  IF parsed.err # Nil THEN Ingested("parse", NoResult, <<parse, embed>>)
        ELSE IF Len(parsed.Fragments) = 0
        THEN Ingested(ErrNoChunks, NoResult, <<parse, embed>>)
        ELSE IF embedded.err # Nil
        THEN Ingested("generate embeddings", NoResult, <<parse, embed>>)
        ELSE IF countMismatch(embedded.vectors, parsed.Fragments)
        THEN Ingested("embedding count mismatch", NoResult, <<parse, embed>>)
        ELSE Ingested(Nil,
                      [RelPath |-> relPath, Folder |-> folder, Title |-> title,
                       Hash |-> contentHash(payload), Fragments |-> parsed.Fragments,
                       Sections |-> parsed.Sections, Topics |-> parsed.Topics,
                       Embeddings |-> embedded.vectors],
                      <<parse, embed>>)

\* IngestDocument from the parser's answer on: the embeddings of the fragments
\* and the result
embedFragments(payload, relPath, folder, parsed, reply) ==
    LET parse == Event("Parse", payload.Path, parsed.err = Nil)
        title == IF parsed.Title = <<>> THEN Base(payload.Path) ELSE parsed.Title
        texts == [i \in 1..Len(parsed.Fragments) |-> parsed.Fragments[i].Text]
        embedded == Embedder_Embed(reply, texts)
        embed == [op |-> "Embed", arg |-> texts, ok |-> embedded.err = Nil,
                  vectors |-> embedded.vectors]
    IN  IF parsed.err # Nil THEN Ingested("parse", NoResult, <<parse>>)
        ELSE IF Len(parsed.Fragments) = 0 THEN Ingested(ErrNoChunks, NoResult, <<parse>>)
        ELSE IF embedded.err # Nil
        THEN Ingested("generate embeddings", NoResult, <<parse, embed>>)
        ELSE IF countMismatch(embedded.vectors, parsed.Fragments)
        THEN Ingested("embedding count mismatch", NoResult, <<parse, embed>>)
        ELSE Ingested(Nil,
                      [RelPath |-> relPath, Folder |-> folder, Title |-> title,
                       Hash |-> contentHash(payload), Fragments |-> parsed.Fragments,
                       Sections |-> parsed.Sections, Topics |-> parsed.Topics,
                       Embeddings |-> embedded.vectors],
                      <<parse, embed>>)

\* Service.IngestDocument: the error, the result (NoResult for nil) and the
\* calls made on the parser and the embedder.  embedder is FALSE for a nil
\* embedder, and reply is what the embedder answers when it is called
IngestDocument(embedder, payload, reply) ==
    LET format == IF payload.Format = FormatUnknown
                  THEN DetectFormat(payload.Path) ELSE payload.Format
        relPath == IF payload.Root # <<>>
                   THEN Rel(payload.Root, payload.Path) ELSE payload.Path
        dir == Dir(relPath)
        folder == IF dir \in { <<".">>, <<"/">> } THEN <<>> ELSE dir
    IN  IF ~embedder THEN Ingested("embedder not configured", NoResult, <<>>)
        ELSE IF payload.Path = <<>>
        THEN Ingested("document path is required", NoResult, <<>>)
        ELSE IF format = FormatUnknown
        THEN Ingested("unsupported document format", NoResult, <<>>)
        ELSE IF format \notin {FormatMarkdown, FormatPDF, FormatCSV}
        THEN Ingested("no parser registered", NoResult, <<>>)
        ELSE embedFragments(payload, relPath, folder,
                            Parse(format, [payload EXCEPT !.Format = format]), reply)

ChatIdle ==
    /\ input = NoInput
    /\ env = [embed |-> Unset, search |-> Unset, graph |-> Unset, generate |-> Unset]
    /\ pc = "idle"
    /\ loc = NoLocals
    /\ trace = <<>>
    /\ ret = Pending
    /\ prev = NoPrev

ChunkIdle ==
    /\ content = <<>>
    /\ target = defaultChunkSize
    /\ overlap = 0
    /\ chunked = NotChunked

PersistIdle ==
    /\ rag_documents = {}
    /\ rag_chunks = {}
    /\ graph = EmptyGraph
    /\ persisted = <<>>

NoCall == [fn |-> "none", chunks |-> <<>>, insights |-> <<>>, filters |-> <<>>]

FnIdle ==
    /\ fnCall = NoCall
    /\ results = <<>>

NoJob == [pc |-> "idle", dir |-> <<>>, entries |-> <<>>, next |-> 0, err |-> Nil]
NotIngested == [called |-> FALSE]

IngestIdle ==
    /\ tree = <<>>
    /\ job = NoJob
    /\ ingestLog = <<>>
    /\ ingested = NotIngested
    /\ reingested = NotIngested

NoRequest == [pc |-> "idle", status |-> 0, error |-> Nil]

ServerIdle ==
    /\ request = NoRequest
    /\ sse = <<>>

NoSession == [pc |-> "off", cfg |-> [SectionFilters |-> <<>>, TopicFilters |-> <<>>],
              inputPending |-> <<>>, conversationHistory |-> NoHistory, turns |-> <<>>]

SessionIdle == session = NoSession

\* NewService: any combination of collaborators
Init ==
    /\ svc \in Services
    /\ ChatIdle
    /\ ChunkIdle
    /\ PersistIdle
    /\ FnIdle
    /\ IngestIdle
    /\ ServerIdle
    /\ SessionIdle

Next ==
    \/ Chat /\ UNCHANGED <<chunkVars, persistVars, fnVars, ingestVars, serverVars, session>>
    \/ ChatStream /\ UNCHANGED <<chunkVars, persistVars, fnVars, ingestVars, serverVars, session>>
    \/ ChatAgain /\ UNCHANGED <<chunkVars, persistVars, fnVars, ingestVars, serverVars, session>>
    \/ Embed /\ UNCHANGED <<chunkVars, persistVars, fnVars, ingestVars, serverVars, session>>
    \/ SimilarChunks /\ UNCHANGED <<chunkVars, persistVars, fnVars, ingestVars, serverVars, session>>
    \/ DocumentInsights /\ UNCHANGED <<chunkVars, persistVars, fnVars, ingestVars, serverVars, session>>
    \/ Generate /\ UNCHANGED <<chunkVars, persistVars, fnVars, ingestVars, serverVars, session>>
    \/ FallbackCallback /\ UNCHANGED <<chunkVars, persistVars, fnVars, ingestVars, serverVars, session>>
    \/ GenerateStream /\ UNCHANGED <<chunkVars, persistVars, fnVars, ingestVars, serverVars, session>>
    \/ StreamRecv /\ UNCHANGED <<chunkVars, persistVars, fnVars, ingestVars, serverVars, session>>

Spec == Init /\ [][Next]_vars

\* the service of a run that only chunks or persists
NoService == [vectors |-> Nil, graph |-> Nil, embedder |-> Nil, llm |-> Nil]

\* the chunker applied once to any document, target size and overlap
InitChunk ==
    /\ svc = NoService
    /\ ChatIdle
    /\ PersistIdle
    /\ FnIdle
    /\ IngestIdle
    /\ ServerIdle
    /\ SessionIdle
    /\ content \in Documents
    /\ target \in Targets
    /\ overlap \in Overlaps
    /\ chunked = NotChunked

NextChunk ==
    \/ CallChunkMarkdown /\ UNCHANGED <<chatVars, persistVars, fnVars, ingestVars, serverVars, session>>
    \/ CallChunkPlainText /\ UNCHANGED <<chatVars, persistVars, fnVars, ingestVars, serverVars, session>>

SpecChunk == InitChunk /\ [][NextChunk]_vars

\* PersistDocument called up to MaxPersist times on empty stores
InitPersist ==
    /\ svc = NoService
    /\ ChatIdle
    /\ ChunkIdle
    /\ PersistIdle
    /\ FnIdle
    /\ IngestIdle
    /\ ServerIdle
    /\ SessionIdle

NextPersist ==
    PersistDocument /\ UNCHANGED <<chatVars, chunkVars, fnVars, ingestVars, serverVars, session>>

SpecPersist == InitPersist /\ [][NextPersist]_vars

\* the filter lists filterChunksBySections is given
FilterCatalog ==
    SectionFilterLists \cup
    { << <<"1">> >>, << <<"0", "1">> >>, << <<"q">>, <<" ", "2">> >>,
      << <<"n", "t", "r">> >>, << <<"e">>, <<"v">> >> }

\* mergeSources or filterChunksBySections on any arguments
InitFn ==
    /\ svc = NoService
    /\ ChatIdle
    /\ ChunkIdle
    /\ PersistIdle
    /\ \/ \E chunks \in ChunkLists, insights \in InsightMaps :
              fnCall = [fn |-> "mergeSources", chunks |-> chunks, insights |-> insights,
                      filters |-> <<>>]
       \/ \E chunks \in ChunkLists, filters \in FilterCatalog :
              fnCall = [fn |-> "filterChunksBySections", chunks |-> chunks,
                      insights |-> <<>>, filters |-> filters]
    /\ results = <<>>
    /\ IngestIdle
    /\ ServerIdle
    /\ SessionIdle

CallMergeSources ==
    /\ fnCall.fn = "mergeSources"
    /\ Len(results) < MaxCalls
    /\ \E sources \in mergeSources(fnCall.chunks, fnCall.insights) :
          results' = Append(results, sources)
    /\ UNCHANGED fnCall

CallFilterChunksBySections ==
    /\ fnCall.fn = "filterChunksBySections"
    /\ results = <<>>
    /\ results' = <<filterChunksBySections(fnCall.chunks, fnCall.filters)>>
    /\ UNCHANGED fnCall

NextFn ==
    \/ CallMergeSources /\ UNCHANGED <<chatVars, chunkVars, persistVars, ingestVars, serverVars, session>>
    \/ CallFilterChunksBySections /\ UNCHANGED <<chatVars, chunkVars, persistVars, ingestVars, serverVars, session>>

SpecFn == InitFn /\ [][NextFn]_vars

\* the files of the data directory "r".  A file's data is its SHA-256, whether
\* a PDF reader can open it, and the lines of its text
LongText == [i \in 1..LongLine |-> "a"]
\* a file without commas or quotes read as CSV: one field per non-empty line
PlainRecords(lines) ==
    LET kept == SelectSeq(lines, LAMBDA line : line # <<>>)
    IN  [i \in 1..Len(kept) |-> <<kept[i]>>]
File(path, sha, pdf, lines) ==
    [path |-> path,
     data |-> [sha |-> sha, pdf |-> pdf, lines |-> lines,
               csv |-> [err |-> Nil, records |-> PlainRecords(lines)]]]
CSVFile(path, sha, lines, records) ==
    [path |-> path,
     data |-> [sha |-> sha, pdf |-> FALSE, lines |-> lines,
               csv |-> [err |-> Nil, records |-> records]]]
FileCatalog ==
    << File(<<"r", "/", "a", ".", "m", "d">>, "ha", FALSE,
            << <<"#", " ", "T">>, LongText, LongText >>),
       File(<<"r", "/", "b", ".", "M", "D">>, "hb", FALSE, << <<" ">> >>),
       File(<<"r", "/", "c", ".", "t", "x", "t">>, "hc", FALSE, << <<"a">> >>),
       File(<<"r", "/", "d", ".", "p", "d", "f">>, "hd", FALSE, << <<"a">> >>),
       CSVFile(<<"r", "/", "g", ".", "c", "s", "v">>, "hg",
               << <<"h", ",", "h">>, <<"1", ",">> >>,
               << <<<<"h">>, <<"h">>>>, <<<<"1">>, <<>>>> >>),
       File(<<"r", "/", "h", ".", "m", "d">>, "hh", FALSE,
            << <<"#", "#", " ", "S">>, <<"#", " ", "T">> >>),
       File(<<"r", "/", "s", "/", "f", ".", "p", "d", "f">>, "hf", TRUE,
            << <<"b", "b", " ">>, <<"c">> >>) >>
Trees ==
    { SelectSeq(FileCatalog, LAMBDA f : f.path \in paths) :
        paths \in { P \in SUBSET {FileCatalog[i].path : i \in 1..Len(FileCatalog)} :
                      Cardinality(P) <= MaxFiles } }
DataDir == <<"r">>

\* the payloads IngestDocument is given: a file of the tree under either root,
\* with or without an explicit format, or a payload without a path
Payloads ==
    { [Root |-> root, Path |-> tree[i].path, Data |-> tree[i].data, Format |-> format] :
        root \in { <<>>, DataDir }, i \in 1..Len(tree),
        format \in {FormatUnknown, FormatMarkdown, FormatCSV} }
    \cup { [Root |-> <<>>, Path |-> <<>>, Data |-> [sha |-> "h", pdf |-> FALSE, lines |-> <<>>,
                                        csv |-> [err |-> Nil, records |-> <<>>]],
            Format |-> FormatUnknown] }

\* what can fail IngestDirectory before its loop
Starts == {Nil, "embedder not configured", "ensure schema", "data directory",
           "walk data directory"}

\* IngestDirectory up to its loop: the checks, and the walk that collects the
\* supported files
IngestDirectory ==
    /\ job.pc = "idle"
    /\ ingested = NotIngested
    /\ \E start \in Starts :
        LET supported == SelectSeq(tree, LAMBDA f : DetectFormat(f.path) # FormatUnknown)
            entries == [i \in 1..Len(supported) |-> supported[i].path]
        IN  job' = IF start # Nil THEN [NoJob EXCEPT !.pc = "returned", !.err = start]
                   ELSE IF Len(entries) = 0
                   THEN [NoJob EXCEPT !.pc = "returned", !.dir = DataDir]
                   ELSE [pc |-> "files", dir |-> DataDir, entries |-> entries,
                         next |-> 1, err |-> Nil]
    /\ UNCHANGED <<tree, ingestLog, ingested, reingested>>

\* mutant: the loop returns the first error of ingestFile
nextFile_abort(j, err) ==
    IF err # Nil THEN [j EXCEPT !.pc = "returned", !.err = err]
    ELSE IF j.next = Len(j.entries)
    THEN [j EXCEPT !.pc = "returned", !.next = @ + 1]
    ELSE [j EXCEPT !.next = @ + 1]

\* the loop of IngestDirectory after ingestFile returned err, which it only logs
nextFile(j, err) ==
    IF j.next = Len(j.entries)
    THEN [j EXCEPT !.pc = "returned", !.next = @ + 1]
    ELSE [j EXCEPT !.next = @ + 1]

\* one iteration of the loop of IngestDirectory: ingestFile on the next entry.
\* read: os.ReadFile succeeds; reply: the embedder's answer; fault: where
\* PersistDocument fails
ingestFile ==
    /\ job.pc = "files"
    /\ \E read \in BOOLEAN, reply \in Replies, fault \in Faults,
          file \in {tree[i] : i \in 1..Len(tree)} :
        /\ file.path = job.entries[job.next]
        /\ \E out \in {IngestDocument(TRUE,
                                     [Root |-> job.dir, Path |-> file.path,
                                      Data |-> file.data,
                                      Format |-> DetectFormat(file.path)],
                                     reply)} :
            LET path == file.path
                persists == read /\ out.err = Nil
                embeds == read /\ \E i \in 1..Len(out.calls) : out.calls[i].op = "Embed"
                err == IF ~read THEN "read file"
                       ELSE IF out.err = ErrNoChunks THEN Nil
                       ELSE IF out.err # Nil THEN out.err
                       ELSE IF fault = "topic cleanup" THEN "sync knowledge graph"
                       ELSE fault
            IN  /\ ~embeds => reply = "vectors"
                /\ IF persists THEN Persist(out.result, fault)
                   ELSE fault = Nil /\ UNCHANGED persistVars
                /\ ingestLog' = ingestLog
                                \o <<Event("ReadFile", path, read)>>
                                \o (IF read THEN out.calls ELSE <<>>)
                                \o (IF persists
                                    THEN <<Event("PersistDocument", path, fault = Nil)>>
                                    ELSE <<>>)
                                \o <<[op |-> "ingestFile", arg |-> path, ok |-> err = Nil,
                                      err |-> err]>>
                /\ job' = nextFile(job, err)
    /\ UNCHANGED <<tree, ingested, reingested>>

\* IngestDocument called on its own, with or without an embedder
CallIngestDocument ==
    /\ job.pc = "idle"
    /\ ingested = NotIngested
    /\ \E embedder \in BOOLEAN, payload \in Payloads, reply \in Replies :
        \E out \in {IngestDocument(embedder, payload, reply)} :
            /\ (\A i \in 1..Len(out.calls) : out.calls[i].op # "Embed") => reply = "vectors"
            /\ ingested' = [called |-> TRUE, payload |-> payload, err |-> out.err,
                            result |-> out.result, calls |-> out.calls]
    /\ UNCHANGED <<tree, job, ingestLog, reingested>>

\* IngestDocument called again after a successful call, on the same data in
\* the same format, under any root and at the path of any file of the tree
CallIngestDocumentAgain ==
    /\ ingested.called
    /\ ingested.err = Nil
    /\ reingested = NotIngested
    /\ \E payload \in Payloads, reply \in Replies :
        \E again \in {[payload EXCEPT !.Data = ingested.payload.Data]} :
            /\ (IF again.Format = FormatUnknown
                THEN DetectFormat(again.Path) ELSE again.Format)
               = (IF ingested.payload.Format = FormatUnknown
                  THEN DetectFormat(ingested.payload.Path) ELSE ingested.payload.Format)
            /\ \E out \in {IngestDocument(TRUE, again, reply)} :
                  reingested' = [called |-> TRUE, payload |-> again, err |-> out.err,
                                 result |-> out.result, calls |-> out.calls]
    /\ UNCHANGED <<tree, job, ingestLog, ingested>>

\* one call of IngestDirectory or of IngestDocument, on any tree and empty stores
InitIngest ==
    /\ svc = NoService
    /\ ChatIdle
    /\ ChunkIdle
    /\ PersistIdle
    /\ FnIdle
    /\ tree \in Trees
    /\ job = NoJob
    /\ ingestLog = <<>>
    /\ ingested = NotIngested
    /\ reingested = NotIngested
    /\ ServerIdle
    /\ SessionIdle

NextIngest ==
    \/ IngestDirectory /\ UNCHANGED <<chatVars, chunkVars, persistVars, fnVars, serverVars, session>>
    \/ ingestFile /\ UNCHANGED <<chatVars, chunkVars, fnVars, serverVars, session>>
    \/ CallIngestDocument /\ UNCHANGED <<chatVars, chunkVars, persistVars, fnVars, serverVars, session>>
    \/ CallIngestDocumentAgain /\ UNCHANGED <<chatVars, chunkVars, persistVars, fnVars, serverVars, session>>

SpecIngest == InitIngest /\ [][NextIngest]_vars

----------------------------------------------------------------------------
(* api: POST /v1/chat/stream *)

\* buildChatService: NewService with every collaborator of the server; the LLM
\* client may or may not implement llm.StreamClient
ServerServices ==
    { s \in Services : s.vectors = Set /\ s.graph = Set /\ s.embedder = Set /\ s.llm # Nil }

\* messagePayload: role and content as the request body spells them
MessagePayload(role, text) == [Role |-> role, Content |-> text]

RoleUser == <<"u", "s", "e", "r">>
RoleTool == <<"t", "o", "o", "l">>

HistoryPayloads ==
    { <<>>,
      << MessagePayload(RoleUser, <<"p">>) >>,
      << MessagePayload(<<" ">>, <<"p">>), MessagePayload(<<" ">> \o RoleUser, <<"p", " ">>) >>,
      << MessagePayload(RoleUser, <<" ">>), MessagePayload(RoleTool, <<"p">>) >> }

\* the llm role a trimmed role string names, Nil when it names none
RoleOf(role) ==
    IF role = RoleUser THEN "user"
    ELSE IF role = <<"a", "s", "s", "i", "s", "t", "a", "n", "t">> THEN "assistant"
    ELSE IF role = <<"s", "y", "s", "t", "e", "m">> THEN "system"
    ELSE Nil

\* parseHistory: blank entries are skipped, an unsupported role is an error;
\* the messages are appended to a slice made with the capacity of the payloads
parseHistory(payloads) ==
    LET kept == SelectSeq(payloads, LAMBDA m :
                    TrimSpace(m.Role) # <<>> /\ TrimSpace(m.Content) # <<>>)
        messages == [i \in 1..Len(kept) |->
                        Message(RoleOf(TrimSpace(kept[i].Role)),
                                Text(TrimSpace(kept[i].Content)))]
    IN  IF Len(payloads) = 0 THEN [err |-> Nil, history |-> NoHistory]
        ELSE IF \E i \in 1..Len(kept) : RoleOf(TrimSpace(kept[i].Role)) = Nil
        THEN [err |-> "unsupported history role", history |-> NoHistory]
        ELSE [err |-> Nil,
              history |-> [array |-> messages \o
                                     [i \in 1..(Len(payloads) - Len(kept)) |-> ZeroMessage],
                           len |-> Len(kept)]]

Methods == {"POST", "GET"}

\* lines 402-431: the checks of the handler before the stream starts, in order
requestError(method, flusher, decoded, question, parsed) ==
    IF method # "POST" THEN "method not allowed"
    ELSE IF ~flusher THEN "streaming not supported"
    ELSE IF ~decoded THEN "decode request"
    ELSE IF question = <<>> THEN "question is required"
    ELSE IF parsed.err # Nil THEN parsed.err
    ELSE Nil

statusOf(err) ==
    IF err = Nil THEN 200
    ELSE IF err = "method not allowed" THEN 405
    ELSE IF err = "streaming not supported" THEN 500
    ELSE 400

\* handleChatStream up to its call of ChatStream: a rejected request is answered
\* with a JSON error, an accepted one starts the turn with the sendSSE callback
handleChatStream ==
    /\ request.pc = "idle"
    /\ pc = "idle"
    /\ \E method \in Methods, flusher \in BOOLEAN, decoded \in BOOLEAN, q \in Questions,
          sf \in SectionFilterLists, tf \in TopicFilterLists, payloads \in HistoryPayloads :
          \E parsed \in {parseHistory(payloads)} :
          \E err \in {requestError(method, flusher, decoded, TrimSpace(q), parsed)} :
              /\ request' = [pc |-> IF err = Nil THEN "streaming" ELSE "responded",
                             status |-> statusOf(err), error |-> err]
              /\ IF err = Nil
                 THEN /\ validate(TrimSpace(q), [SectionFilters |-> sf, TopicFilters |-> tf],
                                  parsed.history, Set)
                      /\ UNCHANGED <<svc, env, prev>>
                 ELSE UNCHANGED chatVars
    /\ UNCHANGED sse

\* one sendSSE call: the event, its payload, and whether it returned nil
Sent(event, data, ok) == [event |-> event, data |-> data, sent |-> ok]

\* sendSSE fails when a write to the response fails; a response whose write has
\* failed accepts no later write
Writable(stream) == \A i \in 1..Len(stream) : stream[i].sent

\* lines 444-446: the callback the handler gives to ChatStream, one sendSSE call
\* for every invocation the step makes
chunkCallback ==
    LET invoked == SelectSeq(SubSeq(trace', Len(trace) + 1, Len(trace')),
                             LAMBDA e : e.op = "streamFn")
    IN  sse' = sse \o [i \in 1..Len(invoked) |-> Sent("chunk", invoked[i].arg, invoked[i].ok)]

\* a step of the turn the handler is waiting for
Serving(step) ==
    /\ request.pc = "streaming"
    /\ step
    /\ chunkCallback
    /\ UNCHANGED request

\* mutant: 'done' closes the stream after an error too
terminalEvents_alwaysDone(r) ==
    IF r.err # Nil THEN << [event |-> "error", data |-> r.err],
                           [event |-> "done", data |-> "complete"] >>
    ELSE << [event |-> "final",
             data |-> [Answer |-> r.Answer, Sources |-> r.Sources, History |-> r.history]],
            [event |-> "done", data |-> "complete"] >>

\* lines 447-461: what the handler sends once ChatStream has returned
terminalEvents(r) ==
    IF r.err # Nil THEN << [event |-> "error", data |-> r.err] >>
    ELSE << [event |-> "final",
             data |-> [Answer |-> r.Answer, Sources |-> r.Sources, History |-> r.history]],
            [event |-> "done", data |-> "complete"] >>

\* lines 447-461: ChatStream has returned; the results of sendSSE are ignored
respond ==
    /\ request.pc = "streaming"
    /\ pc = "done"
    /\ \E events \in {terminalEvents(ret)}, oks \in [1..2 -> BOOLEAN] :
          /\ \A i \in 1..Len(events) :
                oks[i] => Writable(sse) /\ \A j \in 1..(i - 1) : oks[j]
          /\ Len(events) < 2 => oks[2]
          /\ sse' = sse \o [i \in 1..Len(events) |->
                                Sent(events[i].event, events[i].data, oks[i])]
    /\ request' = [request EXCEPT !.pc = "responded"]
    /\ UNCHANGED chatVars

\* one request to a server whose collaborators answer in any way
InitSSE ==
    /\ svc \in ServerServices
    /\ ChatIdle
    /\ ChunkIdle
    /\ PersistIdle
    /\ FnIdle
    /\ IngestIdle
    /\ ServerIdle
    /\ SessionIdle

NextSSE ==
    \/ handleChatStream /\ UNCHANGED <<chunkVars, persistVars, fnVars, ingestVars, session>>
    \/ Serving(Embed) /\ UNCHANGED <<chunkVars, persistVars, fnVars, ingestVars, session>>
    \/ Serving(SimilarChunks) /\ UNCHANGED <<chunkVars, persistVars, fnVars, ingestVars, session>>
    \/ Serving(DocumentInsights) /\ UNCHANGED <<chunkVars, persistVars, fnVars, ingestVars, session>>
    \/ Serving(Generate) /\ UNCHANGED <<chunkVars, persistVars, fnVars, ingestVars, session>>
    \/ Serving(FallbackCallback) /\ UNCHANGED <<chunkVars, persistVars, fnVars, ingestVars, session>>
    \/ Serving(GenerateStream) /\ UNCHANGED <<chunkVars, persistVars, fnVars, ingestVars, session>>
    \/ Serving(StreamRecv) /\ UNCHANGED <<chunkVars, persistVars, fnVars, ingestVars, session>>
    \/ respond /\ UNCHANGED <<chunkVars, persistVars, fnVars, ingestVars, session>>

SpecSSE == InitSSE /\ [][NextSSE]_vars

----------------------------------------------------------------------------
(* cli: the interactive chat session *)

\* strings.EqualFold
EqualFold(a, b) == ToLower(a) = ToLower(b)

Exit == <<"e", "x", "i", "t">>
Quit == <<"q", "u", "i", "t">>

\* what --question holds and what the user types at the prompt
QuestionFlags == { <<>>, <<"w", " ">> }
TypedLines == { <<" ">>, <<"w", " ">>, <<"q", "U", "i", "T">> }

\* what --sections and --topics hold
SessionFlags ==
    { [SectionFilters |-> <<>>, TopicFilters |-> <<>>],
      [SectionFilters |-> << <<" ", "O", "V">> >>, TopicFilters |-> << <<"t", "o">> >>] }

\* a slice that owns its backing array
Slice(messages) == [array |-> messages, len |-> Len(messages)]

\* chatCmd up to its loop: an empty history, the filters of the flags, and the
\* question of the command line, if any, as the first input
chatCmd ==
    /\ session.pc = "off"
    /\ pc = "idle"
    /\ \E question \in QuestionFlags, cfg \in SessionFlags :
          session' = [pc |-> "prompt",
                      cfg |-> cfg,
                      inputPending |-> TrimSpace(question),
                      conversationHistory |-> Slice(<<>>),
                      turns |-> <<>>]
    /\ UNCHANGED chatVars

\* one pass of the loop up to its call of ChatStream: a line is read when no
\* input is pending; end of input, 'exit' and 'quit' end the session, a blank
\* line is skipped, anything else starts a turn with the history of the session
prompt ==
    /\ session.pc = "prompt"
    /\ \E scanned \in BOOLEAN, line \in TypedLines :
          \E inputPending \in {IF session.inputPending = <<>> THEN TrimSpace(line)
                               ELSE session.inputPending} :
              IF session.inputPending = <<>> /\ ~scanned
              THEN session' = [session EXCEPT !.pc = "ended"] /\ UNCHANGED chatVars
              ELSE IF EqualFold(inputPending, Exit) \/ EqualFold(inputPending, Quit)
              THEN session' = [session EXCEPT !.pc = "ended", !.inputPending = inputPending]
                   /\ UNCHANGED chatVars
              ELSE IF inputPending = <<>>
              THEN UNCHANGED <<session, chatVars>>
              ELSE /\ Len(session.turns) < MaxTurns
                   /\ session' = [session EXCEPT !.pc = "turn", !.inputPending = inputPending]
                   /\ validate(inputPending, session.cfg, session.conversationHistory, Set)
                   /\ env' = [embed |-> Unset, search |-> Unset, graph |-> Unset,
                              generate |-> Unset]
                   /\ UNCHANGED <<svc, prev>>

\* lines 168-171: the callback of the session prints the chunk and returns nil
printCallback ==
    \A i \in (Len(trace) + 1)..Len(trace') : trace'[i].op = "streamFn" => trace'[i].ok

\* the knowledge base of a session holds one chunk of one document: the vector
\* store fails, finds nothing, or finds that chunk
SessionSearch ==
    { o \in SearchOutcomes : \A i \in 1..Len(o.val) : o.val[i].ChunkID = "c1" }

\* a step of the turn the session is waiting for
Answering(step) ==
    /\ session.pc = "turn"
    /\ step
    /\ printCallback
    /\ env'.search.set => env'.search \in SessionSearch
    /\ UNCHANGED session

\* mutant: the history of the session is whatever the turn returned
nextHistory_always(history, r) == Slice(r.history)

\* lines 173-179: a failed turn is logged and the history kept
nextHistory(history, r) == IF r.err # Nil THEN history ELSE Slice(r.history)

\* lines 172-234: ChatStream has returned
endTurn ==
    /\ session.pc = "turn"
    /\ pc = "done"
    /\ session' = [session EXCEPT
            !.pc = "prompt",
            !.inputPending = <<>>,
            !.conversationHistory = nextHistory(@, ret),
            !.turns = Append(@, [history |-> Elems(input.history),
                                 failed |-> ret.err # Nil,
                                 updatedHistory |-> ret.history])]
    /\ UNCHANGED chatVars

\* one session with a server whose collaborators answer in any way
InitSession ==
    /\ svc \in ServerServices
    /\ ChatIdle
    /\ ChunkIdle
    /\ PersistIdle
    /\ FnIdle
    /\ IngestIdle
    /\ ServerIdle
    /\ SessionIdle

NextSession ==
    \/ chatCmd /\ UNCHANGED <<chunkVars, persistVars, fnVars, ingestVars, serverVars>>
    \/ prompt /\ UNCHANGED <<chunkVars, persistVars, fnVars, ingestVars, serverVars>>
    \/ Answering(Embed) /\ UNCHANGED <<chunkVars, persistVars, fnVars, ingestVars, serverVars>>
    \/ Answering(SimilarChunks) /\ UNCHANGED <<chunkVars, persistVars, fnVars, ingestVars, serverVars>>
    \/ Answering(DocumentInsights) /\ UNCHANGED <<chunkVars, persistVars, fnVars, ingestVars, serverVars>>
    \/ Answering(Generate) /\ UNCHANGED <<chunkVars, persistVars, fnVars, ingestVars, serverVars>>
    \/ Answering(FallbackCallback) /\ UNCHANGED <<chunkVars, persistVars, fnVars, ingestVars, serverVars>>
    \/ Answering(GenerateStream) /\ UNCHANGED <<chunkVars, persistVars, fnVars, ingestVars, serverVars>>
    \/ Answering(StreamRecv) /\ UNCHANGED <<chunkVars, persistVars, fnVars, ingestVars, serverVars>>
    \/ endTurn /\ UNCHANGED <<chunkVars, persistVars, fnVars, ingestVars, serverVars>>

SpecSession == InitSession /\ [][NextSession]_vars

----------------------------------------------------------------------------
(* Reading the trace of a turn *)

CollaboratorOps == {"Embed", "SimilarChunks", "DocumentInsights", "Generate", "GenerateStream"}
LLMOps == {"Generate", "GenerateStream"}

Only(ops) == SelectSeq(trace, LAMBDA e : e.op \in ops)
Count(ops) == Len(Only(ops))
Delivered == [i \in 1..Len(Only({"streamFn"})) |-> Only({"streamFn"})[i].arg]
EmittedContents == [i \in 1..Len(Emitted) |-> Emitted[i].arg]

Failed(op) == \E i \in 1..Len(trace) : trace[i].op = op /\ ~trace[i].ok
Succeeded(op) == \E i \in 1..Len(trace) : trace[i].op = op /\ trace[i].ok

SearchFound(n) ==
    /\ Succeeded("SimilarChunks")
    /\ Len(env.search.val) = n

----------------------------------------------------------------------------
(* Claims about the chat turn *)

\* C1: a graph-insight failure is never fatal: when DocumentInsights returned an
\* error, the turn fails only if the LLM generation (or the stream callback)
\* fails; otherwise it completes with an answer and sources with empty insights.
\* The code violates it when a topic filter is configured.
C1_GraphErrorNeverFatal ==
    (pc = "done" /\ Failed("DocumentInsights")) =>
        /\ ret.err \in {Nil, "llm generate", "llm stream generate", "stream callback"}
        /\ ret.err = Nil =>
              /\ Len(ret.Sources) > 0
              /\ \A i \in 1..Len(ret.Sources) : ret.Sources[i].Insight = ZeroInsight

\* C4: when vector search returns zero chunks the graph store is not queried and
\* the LLM is invoked exactly once, whatever filters are configured; a successful
\* turn has no sources; and Chat (no callback) succeeds with the LLM's trimmed
\* output as its answer whenever the LLM returns one.
C4_ZeroChunksDegrade ==
    (pc = "done" /\ SearchFound(0)) =>
        /\ Count({"DocumentInsights"}) = 0
        /\ Count(LLMOps) = 1
        /\ ret.err \notin {"no chunks matched the requested sections",
                           "no documents matched the requested topics"}
        /\ ret.err = Nil => ret.Sources = <<>>
        /\ (input.streamFn = Nil /\ Succeeded("Generate")) =>
              /\ ret.err = Nil
              /\ ret.Answer = TrimSpace(Only({"Generate"})[1].arg)

C4_Witness ==
    /\ pc = "done" /\ SearchFound(0)
    /\ svc.graph = Set
    /\ input.cfg.SectionFilters = << <<"q">> >>
    /\ input.cfg.TopicFilters = << <<"q">> >>
    /\ input.streamFn = Nil
    /\ Only({"Generate"}) = <<Event("Generate", <<" ", "A", " ">>, TRUE)>>
    /\ ret.err = Nil /\ ret.Answer = <<"A">> /\ ret.Sources = <<>>

\* C5: the external calls of a turn happen in the order Embed, SimilarChunks,
\* DocumentInsights, Generate/GenerateStream, each collaborator at most once, and
\* a call is made only after every earlier collaborator other than the graph
\* store was called and succeeded.
Rank(op) == CASE op = "Embed" -> 1 [] op = "SimilarChunks" -> 2
              [] op = "DocumentInsights" -> 3 [] OTHER -> 4

C5_CallOrder ==
    LET cs == Only(CollaboratorOps)
    IN  /\ \A i, j \in 1..Len(cs) : i < j => Rank(cs[i].op) < Rank(cs[j].op)
        /\ \A j \in 1..Len(cs) :
              \A r \in {1, 2} :
                  r < Rank(cs[j].op) =>
                      \E i \in 1..(j - 1) : Rank(cs[i].op) = r /\ cs[i].ok

C5_Witness ==
    /\ pc = "done"
    /\ Len(Only(CollaboratorOps)) = 4
    /\ Failed("DocumentInsights")
    /\ Succeeded("GenerateStream")
    /\ ret.err = Nil

\* C6: when vector search returned at least one chunk and a section filter with
\* a non-blank entry matches none of the chunks, or a topic filter with a
\* non-blank entry matches none of the merged sources, the turn fails with the
\* error naming that filter and the LLM is never invoked.  (A list of blank
\* entries only is no filter: it keeps everything.)
NonBlank(filters) == {ToLower(TrimSpace(filters[i])) : i \in 1..Len(filters)} \ {<<>>}

SectionMatches(chunk, filters) ==
    LET t == ToLower(TrimSpace(chunk.SectionTitle))
        title == IF t = <<>> THEN <<"i","n","t","r","o","d","u","c","t","i","o","n">> ELSE t
    IN  \E f \in NonBlank(filters) :
            Contains(title, f) \/ f = Sprintf_d(chunk.SectionOrder)

TopicMatches(insight, filters) ==
    \E f \in NonBlank(filters) :
        \E k \in 1..Len(insight.Topics) : Contains(ToLower(TrimSpace(insight.Topics[k])), f)

InsightOf(id) == IF id \in DOMAIN loc.insights THEN loc.insights[id] ELSE ZeroInsight

NoSectionMatch ==
    /\ Succeeded("SimilarChunks")
    /\ Len(env.search.val) >= 1
    /\ NonBlank(input.cfg.SectionFilters) # {}
    /\ \A i \in 1..Len(env.search.val) :
          ~SectionMatches(env.search.val[i], input.cfg.SectionFilters)

\* loc.chunks holds the chunks that went into the merge
NoTopicMatch ==
    /\ Len(loc.chunks) >= 1
    /\ (svc.graph # Nil => Count({"DocumentInsights"}) = 1)
    /\ NonBlank(input.cfg.TopicFilters) # {}
    /\ \A i \in 1..Len(loc.chunks) :
          ~TopicMatches(InsightOf(loc.chunks[i].DocumentID), input.cfg.TopicFilters)

C6_FilterExhausted ==
    pc = "done" =>
        /\ NoSectionMatch =>
              /\ ret.err = "no chunks matched the requested sections"
              /\ Count(LLMOps) = 0
        /\ NoTopicMatch =>
              /\ ret.err = "no documents matched the requested topics"
              /\ Count(LLMOps) = 0

C6_Witness ==
    /\ pc = "done"
    /\ NoTopicMatch
    /\ Succeeded("DocumentInsights")
    /\ Len(env.search.val) = 2 /\ Len(loc.chunks) = 1
    /\ input.cfg.SectionFilters = << <<" ", "O", "V">> >>
    /\ InsightOf("d1") = TopicInsight
    /\ ret.err = "no documents matched the requested topics"

\* C7: a successful turn returns the caller's history followed by exactly the
\* user message sent to the LLM and an assistant message holding the trimmed
\* answer; the caller's slice (its backing array included) is as it was passed;
\* a failed turn returns no history.
Raw ==
    IF Count({"Generate"}) = 1 THEN Only({"Generate"})[1].arg ELSE Concat(Delivered)

C7_History ==
    /\ input.history \in Histories \cup {NoHistory}
    /\ (pc = "done" /\ ret.err = Nil) =>
          /\ Len(ret.history) = input.history.len + 2
          /\ SubSeq(ret.history, 1, input.history.len) = Elems(input.history)
          /\ ret.history[input.history.len + 1] = loc.messages[Len(loc.messages)]
          /\ ret.history[input.history.len + 1].Role = "user"
          /\ ret.history[input.history.len + 2] = Message("assistant", Text(ret.Answer))
          /\ ret.Answer = TrimSpace(Raw)
    /\ (pc = "done" /\ ret.err # Nil) => ret.history = <<>>

C7_Witness ==
    /\ pc = "done" /\ ret.err = Nil
    /\ input.history.len = 2 /\ Len(input.history.array) = 4
    /\ Len(ret.history) = 4
    /\ ret.history[4].Content.text = <<"A">>
    /\ Raw = <<" ", "A", " ">>

\* C8: in a turn with a callback, once the callback returns an error or the
\* generation call fails (after any number of delivered chunks), nothing more
\* happens in the turn but its single failure return: the callback is not
\* invoked again and no answer, sources or history are returned.
Aborts(e) ==
    /\ ~e.ok
    /\ e.op \in {"streamFn", "recv", "Generate", "GenerateStream"}

C8_StreamAbort ==
    /\ Count({"return"}) <= 1
    /\ (pc = "done") <=> (Count({"return"}) = 1 /\ trace[Len(trace)].op = "return")
    /\ input.streamFn # Nil =>
          \A i \in 1..Len(trace) :
              Aborts(trace[i]) =>
                  /\ Len(trace) = i + 1
                  /\ trace[i + 1] = Event("return", <<>>, FALSE)
                  /\ pc = "done"
                  /\ ret.err # Nil
                  /\ ret.Answer = <<>> /\ ret.Sources = <<>> /\ ret.history = <<>>

C8_Witness ==
    /\ pc = "done"
    /\ Len(Delivered) = 2
    /\ Only({"streamFn"})[1].ok /\ ~Only({"streamFn"})[2].ok
    /\ loc.builder = <<"A", "A">>
    /\ Len(loc.sources) = 2
    /\ input.history.len = 2
    /\ ret = Failure("llm stream generate")

\* C9: on a successful turn with a streaming LLM and a callback, the callback
\* received exactly the non-empty contents the LLM emitted, in emission order,
\* and the answer is their concatenation, trimmed.
C9_StreamDelivery ==
    (pc = "done" /\ ret.err = Nil /\ streams) =>
        /\ Delivered = SelectSeq(EmittedContents, LAMBDA c : c # <<>>)
        /\ \A i \in 1..Len(Only({"streamFn"})) : Only({"streamFn"})[i].ok
        /\ ret.Answer = TrimSpace(Concat(Delivered))

C9_Witness ==
    /\ pc = "done" /\ ret.err = Nil /\ streams
    /\ EmittedContents = << <<>>, <<"A">> >>
    /\ Delivered = << <<"A">> >>
    /\ ret.Answer = <<"A">>

\* C10: with a callback and an LLM without streaming, Generate is called once
\* and, when it succeeds, the callback is invoked exactly once, right after it,
\* with the whole (untrimmed) generated answer; when the callback accepts it,
\* the turn returns what the same turn without a callback returns (the sources
\* being compared up to the order mergeSources gives equal scores).
FallbackTurn == input.streamFn # Nil /\ svc.llm = "Client" /\ ~prev.set

SameSources(a, b) ==
    /\ Len(a) = Len(b)
    /\ {a[i] : i \in 1..Len(a)} = {b[i] : i \in 1..Len(b)}

C10_Fallback ==
    /\ (FallbackTurn /\ pc = "done") =>
          /\ Count({"GenerateStream"}) = 0
          /\ Count({"Generate"}) <= 1
          /\ Succeeded("Generate") =>
                /\ Count({"Generate"}) = 1
                /\ Delivered = <<Only({"Generate"})[1].arg>>
                /\ \E i \in 1..Len(trace) :
                      trace[i].op = "Generate" /\ trace[i + 1].op = "streamFn"
          /\ ~Succeeded("Generate") => Delivered = <<>>
    /\ (prev.set /\ pc = "done"
           /\ \A i \in 1..Len(prev.trace) : ~Aborts(prev.trace[i]) \/ prev.trace[i].op # "streamFn") =>
          /\ ret.err = prev.ret.err
          /\ ret.Answer = prev.ret.Answer
          /\ SameSources(ret.Sources, prev.ret.Sources)
          /\ Len(ret.history) = Len(prev.ret.history)
          /\ loc.sources = prev.sources => ret = prev.ret

C10_Witness ==
    /\ prev.set /\ pc = "done"
    /\ ret.err = Nil /\ ret = prev.ret
    /\ Len(ret.Sources) = 2
    /\ ret.Answer = <<"A">>
    /\ \E i \in 1..Len(prev.trace) :
          prev.trace[i] = Event("streamFn", <<" ", "A", " ">>, TRUE)

\* C11: a question that is empty after trimming, or a missing embedder, vector
\* store or LLM client, makes Chat/ChatStream fail before any collaborator or
\* the stream callback is invoked: the turn consists of its failure return.
NotConfigured ==
    {"embedder is not configured", "vector store is not configured",
     "llm client is not configured"}

C11_Validation ==
    (pc # "idle" /\ (TrimSpace(input.question) = <<>> \/ svc.embedder = Nil
                       \/ svc.vectors = Nil \/ svc.llm = Nil)) =>
        /\ pc = "done"
        /\ trace = <<Event("return", <<>>, FALSE)>>
        /\ ret.err \in {"question cannot be empty"} \cup NotConfigured
        /\ ret.err = "question cannot be empty" <=> TrimSpace(input.question) = <<>>
        /\ ret = Failure(ret.err)

C11_Witness ==
    /\ pc = "done"
    /\ svc.embedder = Set /\ svc.vectors = Set /\ svc.graph = Set /\ svc.llm = Nil
    /\ TrimSpace(input.question) = <<"w">>
    /\ input.streamFn = Set
    /\ ret.err = "llm client is not configured"
    /\ Count(CollaboratorOps \cup {"streamFn", "recv"}) = 0

----------------------------------------------------------------------------
(* Claims about the chunker *)

Chunked == chunked # NotChunked

Oversized(fragment) ==
    \E i \in 1..Len(fragment.units) : Len(fragment.units[i].Text) > target

\* C2: for every target > 0, every overlap and every input, each fragment
\* returned by ChunkMarkdown / ChunkPlainText has text length <= target, unless
\* the fragment contains a paragraph unit that by itself is longer than target.
C2_FragmentWithinTarget ==
    (Chunked /\ target > 0) =>
        \A i \in 1..Len(chunked.fragments) :
            \/ Len(chunked.fragments[i].Text) <= target
            \/ Oversized(chunked.fragments[i])

UnitsOf(i) == chunked.fragments[i].units

\* C15: for overlap > 0, whenever more than one fragment is produced, every
\* fragment after the first begins with the last paragraph unit of the
\* preceding fragment and goes on with units the preceding fragment does not
\* hold: exactly one unit is carried over, whatever the magnitude of overlap.
C15_OverlapCarry ==
    (Chunked /\ overlap > 0 /\ Len(chunked.fragments) > 1) =>
        /\ \A i \in 2..Len(chunked.fragments) :
              /\ Len(UnitsOf(i)) >= 2
              /\ UnitsOf(i)[1] = UnitsOf(i - 1)[Len(UnitsOf(i - 1))]
        /\ Len(Concat([i \in 1..Len(chunked.fragments) |-> UnitsOf(i)]))
              = Len(chunked.paragraphs) + Len(chunked.fragments) - 1

C15_Witness ==
    /\ Chunked /\ overlap = 3 /\ target = 3
    /\ Len(chunked.paragraphs) = 3
    /\ Len(chunked.fragments) = 2
    /\ [i \in 1..2 |-> Len(UnitsOf(1)[i].Text)] = <<1, 2>>
    /\ [i \in 1..2 |-> Len(UnitsOf(2)[i].Text)] = <<2, 1>>

\* C16: for every input with at least one paragraph unit, at least one
\* fragment is returned and the unit sequence is recovered from the fragments:
\* with overlap <= 0 their unit lists concatenate to the input's units in
\* document order; with overlap > 0 they do after dropping the first unit of
\* every fragment after the first.
OwnUnits(i) == IF overlap > 0 /\ i > 1 THEN Tail(UnitsOf(i)) ELSE UnitsOf(i)

C16_Recoverable ==
    (Chunked /\ chunked.paragraphs # <<>>) =>
        /\ Len(chunked.fragments) >= 1
        /\ Concat([i \in 1..Len(chunked.fragments) |-> OwnUnits(i)]) = chunked.paragraphs
        /\ \A i \in 1..Len(chunked.fragments) :
              chunked.fragments[i].Text =
                  Join([k \in 1..Len(UnitsOf(i)) |-> UnitsOf(i)[k].Text], <<"\n", "\n">>)

C16_Witness ==
    /\ Chunked /\ overlap = 0 /\ target = 1
    /\ chunked.fn = "ChunkMarkdown"
    /\ Len(chunked.paragraphs) = 3
    /\ Len(chunked.fragments) = 3
    /\ chunked.fragments[2].Text = <<"b", "b">>

----------------------------------------------------------------------------
(* Claims about persistence *)

LastCall == persisted[Len(persisted)]

StoredChunks(id) ==
    {[index |-> c.chunk_index, text |-> c.content, section |-> c.section_order] :
        c \in {x \in rag_chunks : x.document_id = id}}

MirroredChunks(id) ==
    {[index |-> c.index, text |-> c.text, section |-> c.section] :
        c \in {x \in graph.chunks : x.doc = id}}

Mirrored(row) ==
    /\ \E d \in graph.documents : d.id = row.id /\ d.sha256 = row.sha256
    /\ MirroredChunks(row.id) = StoredChunks(row.id)
    /\ {c.section_order : c \in {x \in rag_chunks : x.document_id = row.id}}
         \subseteq {x.order : x \in {y \in graph.sections : y.doc = row.id}}

\* C3: after any sequence of PersistDocument calls for one path, sync failures
\* after the relational commit included, whenever the most recent call returned
\* success the graph mirror holds the chunks and sections of the document
\* version (content hash) that the vector store holds for that path.
C3_GraphMirrorsStore ==
    (persisted # <<>> /\ LastCall.err = Nil) =>
        \A row \in rag_documents : Mirrored(row)

----------------------------------------------------------------------------
(* Claims about the helpers of the chat package *)

Merged == fnCall.fn = "mergeSources"

DocumentIDs(chunks) == {chunks[i].DocumentID : i \in 1..Len(chunks)}

FirstSeen(chunks, id) ==
    CHOOSE i \in 1..Len(chunks) :
        /\ chunks[i].DocumentID = id
        /\ \A j \in 1..(i - 1) : chunks[j].DocumentID # id

\* C12: mergeSources is deterministic: the same chunk list and insights map
\* give the same ordered list of sources on every call, sources of equal score
\* being kept in the first-seen order of their documents.
C12_MergeDeterministic ==
    Merged =>
        /\ \A i, j \in 1..Len(results) : results[i] = results[j]
        /\ \A k \in 1..Len(results) :
              \A i, j \in 1..Len(results[k]) :
                  (i < j /\ results[k][i].Score = results[k][j].Score) =>
                      FirstSeen(fnCall.chunks, results[k][i].DocumentID)
                          < FirstSeen(fnCall.chunks, results[k][j].DocumentID)

\* C13: mergeSources returns exactly one Source per distinct documentID among
\* the chunks; its score is the maximum score of the document's chunks, its
\* title and path are those of the document's first-seen chunk, its insight is
\* the map entry of the documentID (the zero value when absent); the list is
\* in non-increasing score order.
MaxScore(chunks, id) ==
    CHOOSE m \in {chunks[i].Score : i \in {j \in 1..Len(chunks) : chunks[j].DocumentID = id}} :
        \A i \in 1..Len(chunks) : chunks[i].DocumentID = id => chunks[i].Score <= m

IsNumeral(f) ==
    /\ f # <<>>
    /\ \A i \in 1..Len(f) : \E d \in 0..9 : f[i] = Digit(d)

RECURSIVE NumeralValue(_)
NumeralValue(f) ==
    IF f = <<>> THEN 0
    ELSE 10 * NumeralValue(SubSeq(f, 1, Len(f) - 1))
            + (CHOOSE d \in 0..9 : f[Len(f)] = Digit(d))

SectionTitleOf(chunk) ==
    LET t == ToLower(TrimSpace(chunk.SectionTitle))
    IN  IF t = <<>> THEN <<"i","n","t","r","o","d","u","c","t","i","o","n">> ELSE t

SectionSelected(chunk, filters) ==
    \/ NonBlank(filters) = {}
    \/ \E f \in NonBlank(filters) :
          \/ Contains(SectionTitleOf(chunk), f)
          \/ (IsNumeral(f) /\ NumeralValue(f) = chunk.SectionOrder)

C14_FilterChunksBySections ==
    (fnCall.fn = "filterChunksBySections" /\ results # <<>>) =>
        results[1] = SelectSeq(fnCall.chunks,
                               LAMBDA c : SectionSelected(c, fnCall.filters))

\* the call a step makes, and whether its hash is the one stored for its path
ThisCall == persisted'[Len(persisted')]
StoredHash(c) ==
    \E row \in rag_documents :
        row.source_path = c.result.RelPath /\ row.sha256 = c.result.Hash

\* C17: persisting a result whose hash equals the hash stored for its path is
\* a no-op: the document row, the chunks and the graph mirror are unchanged,
\* the graph sync is not invoked and the reported chunk count is 0; so the same
\* result persisted again after a successful call leaves the state as it was.
C17_SameHashNoOp ==
    [][ StoredHash(ThisCall) =>
            /\ rag_documents' = rag_documents
            /\ rag_chunks' = rag_chunks
            /\ graph' = graph
            /\ ~ThisCall.synced
            /\ ThisCall.count = 0
            /\ ThisCall.err \in {Nil} \cup TxFaults ]_vars

C17_Witness ==
    /\ Len(persisted) = 3
    /\ persisted[1].result.Hash = "h1" /\ persisted[1].err = Nil
    /\ persisted[2].result.Hash = "h2" /\ persisted[2].err = Nil /\ persisted[2].count = 2
    /\ persisted[3].result.Hash = "h2" /\ persisted[3].err = Nil /\ persisted[3].count = 0
    /\ ~persisted[3].synced
    /\ \A row \in rag_documents : Mirrored(row)

\* C18: a call for a new path or a changed hash that returns success leaves as
\* the document's stored chunks exactly the result's fragments, with
\* chunk_index 0..n-1, and the result's hash as the stored hash; a call that
\* fails before the transaction commits leaves the document row and the chunks
\* as they were before the call.
FragmentRows(c) ==
    {[index |-> i - 1, text |-> c.result.Fragments[i].Text,
      section |-> c.result.Fragments[i].Section.Order] :
        i \in 1..Len(c.result.Fragments)}

C18_AtomicReplace ==
    [][ /\ (~StoredHash(ThisCall) /\ ThisCall.err = Nil) =>
              \E row \in rag_documents' :
                  /\ row.source_path = ThisCall.result.RelPath
                  /\ row.sha256 = ThisCall.result.Hash
                  /\ \A other \in rag_documents' :
                        other.source_path = row.source_path => other = row
                  /\ {[index |-> c.chunk_index, text |-> c.content,
                       section |-> c.section_order] :
                        c \in {x \in rag_chunks' : x.document_id = row.id}}
                       = FragmentRows(ThisCall)
                  /\ ThisCall.count = Len(ThisCall.result.Fragments)
        /\ ThisCall.err \in TxFaults =>
              /\ rag_documents' = rag_documents
              /\ rag_chunks' = rag_chunks ]_vars

C18_Witness ==
    /\ Len(persisted) = 3
    /\ persisted[1].result.Hash = "h2" /\ persisted[1].err = Nil
    /\ persisted[2].result.Hash = "h1" /\ persisted[2].err = "insert chunk"
    /\ persisted[3].result.Hash = "h1" /\ persisted[3].err = Nil
    /\ Cardinality(rag_chunks) = 1
    /\ \A c \in rag_chunks : c.chunk_index = 0 /\ c.content = <<"x">>
    /\ \A row \in rag_documents : row.sha256 = "h1"

----------------------------------------------------------------------------
(* IngestDirectory and IngestDocument *)

LogOf(ops) == SelectSeq(ingestLog, LAMBDA e : e.op \in ops)
ArgsOf(ops) == [i \in 1..Len(LogOf(ops)) |-> LogOf(ops)[i].arg]

\* the supported files of the tree, in walk order
SupportedFiles == SelectSeq(tree, LAMBDA f : DetectFormat(f.path) # FormatUnknown)
SupportedPaths == [i \in 1..Len(SupportedFiles) |-> SupportedFiles[i].path]

\* the walk succeeded and the loop over the files was entered or skipped
Walked == job.pc # "idle" /\ job.err \notin (Starts \ {Nil})

\* the parser reads the file and finds nothing to chunk
YieldsNoChunks(f) ==
    LET format == DetectFormat(f.path)
        parsed == Parse(format, [Root |-> DataDir, Path |-> f.path, Data |-> f.data,
                                 Format |-> format])
    IN  parsed.err = Nil /\ Len(parsed.Fragments) = 0

PersistedPaths == {persisted[i].result.RelPath : i \in 1..Len(persisted)}

\* C19: once the walk of IngestDirectory has succeeded, the files it reads are
\* the supported files of the tree in walk order, each once, up to the one it
\* has reached and all of them when it returns, whatever the earlier files did;
\* a file that yields no chunks is not an error, PersistDocument is not called
\* on it and it gets no row; and the call returns nil
C19_EveryFileAttempted ==
    Walked =>
        /\ Len(ArgsOf({"ReadFile"})) <= Len(SupportedPaths)
        /\ ArgsOf({"ReadFile"}) = SubSeq(SupportedPaths, 1, Len(ArgsOf({"ReadFile"})))
        /\ ArgsOf({"ingestFile"}) = ArgsOf({"ReadFile"})
        /\ job.pc = "returned" =>
              /\ ArgsOf({"ReadFile"}) = SupportedPaths
              /\ job.err = Nil
        /\ \A i \in 1..Len(SupportedFiles) :
              YieldsNoChunks(SupportedFiles[i]) =>
                  /\ \A k \in 1..Len(ingestLog) :
                        ingestLog[k].arg = SupportedFiles[i].path =>
                            /\ ingestLog[k].op # "PersistDocument"
                            /\ ingestLog[k].op = "ingestFile" =>
                                  ingestLog[k].err \in {Nil, "read file"}
                  /\ Rel(DataDir, SupportedFiles[i].path) \notin PersistedPaths
                  /\ \A r \in rag_documents :
                        r.source_path # Rel(DataDir, SupportedFiles[i].path)

\* the first of two files failed, the second was persisted, the call returned nil
C19_Witness ==
    /\ job.pc = "returned"
    /\ Len(job.entries) = 2
    /\ \E k \in 1..Len(ingestLog) :
          /\ ingestLog[k].op = "ingestFile"
          /\ ingestLog[k].arg = job.entries[1]
          /\ ~ingestLog[k].ok
    /\ \E k \in 1..Len(ingestLog) :
          /\ ingestLog[k].op = "PersistDocument"
          /\ ingestLog[k].arg = job.entries[2]
          /\ ingestLog[k].ok
    /\ job.err = Nil

EmbedCalls(calls) == SelectSeq(calls, LAMBDA e : e.op = "Embed")
TextsOf(fragments) == [i \in 1..Len(fragments) |-> fragments[i].Text]

\* a result whose embeddings are, index by index, the vectors that the one
\* Embed call among calls returned for the texts of the fragments in order
Aligned(result, calls) ==
    /\ Len(result.Embeddings) = Len(result.Fragments)
    /\ Len(EmbedCalls(calls)) = 1
    /\ EmbedCalls(calls)[1].arg = TextsOf(result.Fragments)
    /\ \A i \in 1..Len(result.Fragments) :
          result.Embeddings[i] = EmbedCalls(calls)[1].vectors[i]

\* C20: IngestDocument returns a result exactly when it returns no error; a
\* result has one embedding per fragment, the i-th being the i-th vector of the
\* single Embed call, which was given the fragment texts in fragment order; an
\* embedder that answers with another number of vectors makes the call fail
\* without a result; and the results IngestDirectory persists are of that kind
C20_EmbeddingsAligned ==
    /\ ingested.called =>
          /\ ingested.err = Nil <=> ingested.result # NoResult
          /\ ingested.result # NoResult => Aligned(ingested.result, ingested.calls)
          /\ \A k \in 1..Len(EmbedCalls(ingested.calls)) :
                LET e == EmbedCalls(ingested.calls)[k]
                IN  e.ok /\ Len(e.vectors) # Len(e.arg) =>
                        /\ ingested.err = "embedding count mismatch"
                        /\ ingested.result = NoResult
    /\ \A i \in 1..Len(persisted) :
          Len(persisted[i].result.Embeddings) = Len(persisted[i].result.Fragments)

\* a document of two fragments was ingested with its two embeddings
C20_Witness ==
    /\ ingested.called
    /\ ingested.err = Nil
    /\ Len(ingested.result.Fragments) = 2
    /\ ingested.result.Embeddings = << <<"vector", 1>>, <<"vector", 2>> >>

SupportedExtensions ==
    { <<".", "m", "d">>, <<".", "m", "a", "r", "k", "d", "o", "w", "n">>,
      <<".", "p", "d", "f">>, <<".", "c", "s", "v">> }

\* no format override and an extension outside the supported ones
Unsupported(payload) ==
    /\ payload.Format = FormatUnknown
    /\ ToLower(Ext(payload.Path)) \notin SupportedExtensions

\* the payload's parser reads the data and finds nothing to chunk
FindsNothing(payload) ==
    LET format == IF payload.Format = FormatUnknown
                  THEN DetectFormat(payload.Path) ELSE payload.Format
        parsed == Parse(format, payload)
    IN  parsed.err = Nil /\ Len(parsed.Fragments) = 0

CallsOf(calls, op) == SelectSeq(calls, LAMBDA e : e.op = op)

\* C21: a call of IngestDocument on an unsupported format fails having called
\* neither the parser nor the embedder; a call whose parser failed, or whose
\* parser found no fragment (ErrNoChunks), fails without a result and without
\* having called the embedder
C21_FailsBeforeEmbed ==
    ingested.called =>
        /\ Unsupported(ingested.payload) =>
              /\ ingested.err # Nil
              /\ ingested.result = NoResult
              /\ ingested.calls = <<>>
        /\ \A k \in 1..Len(ingested.calls) :
              LET e == ingested.calls[k]
              IN  e.op = "Parse" /\ (~e.ok \/ FindsNothing(ingested.payload))
                  => /\ ingested.err # Nil
                     /\ ingested.result = NoResult
                     /\ CallsOf(ingested.calls, "Embed") = <<>>
        /\ ingested.err \in {"parse", ErrNoChunks, "unsupported document format"} =>
              CallsOf(ingested.calls, "Embed") = <<>>
        /\ ingested.err = "parse" <=> \E k \in 1..Len(ingested.calls) :
                                        ingested.calls[k].op = "Parse" /\ ~ingested.calls[k].ok

\* the parser was called on a blank document, the call failed with ErrNoChunks
C21_Witness ==
    /\ ingested.called
    /\ ingested.err = ErrNoChunks
    /\ Len(CallsOf(ingested.calls, "Parse")) = 1
    /\ CallsOf(ingested.calls, "Embed") = <<>>

----------------------------------------------------------------------------
(* Sections, topics and fragments of a parsed document *)

LeadAt(sections) == {i \in 1..Len(sections) : sections[i].Order = 0}
LeadOffset(sections) == IF LeadAt(sections) = {} THEN 0 ELSE 1

\* C22: in the sections ChunkMarkdown returns, an entry of order 0 can only be
\* the first one, the entries after it carry the orders 1, 2, ... in the order
\* of the list, and the entry of order 0 is there exactly when some paragraph
\* unit is tagged with order 0
C22_SectionOrders ==
    chunked.fn = "ChunkMarkdown" =>
        /\ LeadAt(chunked.sections) \subseteq {1}
        /\ \A i \in (LeadOffset(chunked.sections) + 1)..Len(chunked.sections) :
              chunked.sections[i].Order = i - LeadOffset(chunked.sections)
        /\ LeadAt(chunked.sections) # {} <=>
              \E i \in 1..Len(chunked.paragraphs) : chunked.paragraphs[i].Section.Order = 0

\* a level-1 heading and two deeper headings: the lead section and orders 1, 2
C22_Witness ==
    /\ chunked.fn = "ChunkMarkdown"
    /\ Len(chunked.sections) = 3
    /\ [i \in 1..3 |-> chunked.sections[i].Order] = <<0, 1, 2>>
    /\ Len(chunked.topics) = 1

TopicNames(topics) == [i \in 1..Len(topics) |-> topics[i].Name]

\* the results IngestDocument returned, to a direct caller or to ingestFile
IngestResults ==
    {persisted[i].result : i \in 1..Len(persisted)}
    \cup (IF ingested.called /\ ingested.result # NoResult THEN {ingested.result} ELSE {})

\* C23: the topics of every ingested document have non-empty names, no two of
\* them equal, whichever parser produced them
C23_TopicsDistinct ==
    \A result \in IngestResults :
        \A i, j \in 1..Len(result.Topics) :
            /\ result.Topics[i].Name # <<>>
            /\ i # j => result.Topics[i].Name # result.Topics[j].Name

Trimmed(text) == text # <<>> /\ TrimSpace(text) = text

\* C24: every fragment of every ingested document, whichever parser produced
\* it, has a text that is non-empty and neither starts nor ends with whitespace
C24_FragmentsTrimmed ==
    \A result \in IngestResults :
        \A i \in 1..Len(result.Fragments) : Trimmed(result.Fragments[i].Text)

ResolvedFormat(payload) ==
    IF payload.Format = FormatUnknown THEN DetectFormat(payload.Path) ELSE payload.Format

\* the lines that are headings of level 1: one "#", then the title
TopHeadings(lines) ==
    SelectSeq(lines, LAMBDA line : leadingHashes(TrimSpace(line)) = 1)
HeadingText(line) == TrimSpace(Tail(TrimSpace(line)))

\* C25: the title of a document ingested as Markdown is the text of its first
\* level-1 heading, and the base name of its path when it has none
C25_MarkdownTitle ==
    ingested.called /\ ingested.result # NoResult
                    /\ ResolvedFormat(ingested.payload) = FormatMarkdown =>
        ingested.result.Title =
            IF TopHeadings(ingested.payload.Data.lines) # <<>>
            THEN HeadingText(TopHeadings(ingested.payload.Data.lines)[1])
            ELSE Base(ingested.payload.Path)

\* C26: two successful calls of IngestDocument on the same data in the same
\* format, under different roots or paths, return the same hash, fragments
\* (text and section), sections and topics, and hand the embedder the same
\* texts
C26_PathIndependent ==
    /\ reingested.called
    /\ reingested.result # NoResult
    /\ <<reingested.payload.Root, reingested.payload.Path>>
         # <<ingested.payload.Root, ingested.payload.Path>>
    => /\ reingested.payload.Data = ingested.payload.Data
       /\ ResolvedFormat(reingested.payload) = ResolvedFormat(ingested.payload)
       /\ reingested.result.Hash = ingested.result.Hash
       /\ reingested.result.Fragments = ingested.result.Fragments
       /\ reingested.result.Sections = ingested.result.Sections
       /\ reingested.result.Topics = ingested.result.Topics
       /\ [i \in 1..Len(EmbedCalls(reingested.calls)) |-> EmbedCalls(reingested.calls)[i].arg]
            = [i \in 1..Len(EmbedCalls(ingested.calls)) |-> EmbedCalls(ingested.calls)[i].arg]

\* the same document ingested at two paths: the relative paths, the folders
\* and the fallback titles differ
C26_Witness ==
    /\ reingested.called
    /\ reingested.result # NoResult
    /\ reingested.payload.Path # ingested.payload.Path
    /\ reingested.result.RelPath # ingested.result.RelPath
    /\ reingested.result.Folder # ingested.result.Folder
    /\ reingested.result.Title # ingested.result.Title

\* the fragment holds units from both sides of a heading
Straddles(fragment) ==
    \E i \in 1..(Len(fragment.units) - 1) :
        fragment.units[i].Section # fragment.units[i + 1].Section

\* C27: a fragment of ChunkMarkdown whose units come from both sides of a
\* heading reports the section opened by the later heading, the section of
\* its last unit
C27_NewerSection ==
    chunked.fn = "ChunkMarkdown" =>
        \A i \in 1..Len(chunked.fragments) :
            Straddles(chunked.fragments[i]) =>
                chunked.fragments[i].Section
                    = chunked.fragments[i].units[Len(chunked.fragments[i].units)].Section

\* C28: the section of every fragment returned by ChunkMarkdown or
\* ChunkPlainText, with its title, level and order, is an entry of the
\* sections returned by the same call
C28_SectionListed ==
    chunked.fn # "none" =>
        \A i \in 1..Len(chunked.fragments) :
            \E k \in 1..Len(chunked.sections) :
                chunked.sections[k] = chunked.fragments[i].Section

----------------------------------------------------------------------------
(* The event stream of POST /v1/chat/stream *)

Accepted == request.error = Nil /\ request.pc # "idle"
OnlyChunksBefore(i) == \A j \in 1..(i - 1) : sse[j].event = "chunk"

\* C29: a request that passes the checks of the handler gets zero or more
\* 'chunk' events and then exactly one terminal sequence, a single 'error' when
\* the turn failed, 'final' then 'done' when it succeeded; nothing follows a
\* terminal sequence, no 'chunk' follows a terminal event, 'done' comes only
\* right after 'final', and the events that reached the client are a prefix of
\* the events sent.  A rejected request gets no event.
C29_EventStream ==
    /\ ~Accepted => sse = <<>>
    /\ \A i \in 1..Len(sse) :
          /\ sse[i].event \in {"chunk", "error", "final", "done"}
          /\ sse[i].event \in {"chunk", "error", "final"} => OnlyChunksBefore(i)
          /\ sse[i].event = "done" =>
                i > 1 /\ sse[i - 1].event = "final" /\ OnlyChunksBefore(i - 1)
          /\ sse[i].event \in {"error", "done"} => i = Len(sse)
          /\ sse[i].sent => \A j \in 1..i : sse[j].sent
    /\ request.pc = "streaming" => \A i \in 1..Len(sse) : sse[i].event = "chunk"
    /\ Accepted /\ request.pc = "responded" =>
          /\ sse # <<>>
          /\ sse[Len(sse)].event = IF ret.err # Nil THEN "error" ELSE "done"

\* a successful streamed turn: chunks, then 'final', then 'done', all delivered
C29_Witness ==
    /\ request.pc = "responded"
    /\ Len(sse) >= 3
    /\ sse[1].event = "chunk"
    /\ sse[Len(sse) - 1].event = "final"
    /\ sse[Len(sse)].event = "done"
    /\ Writable(sse)

----------------------------------------------------------------------------
(* The history of an interactive session *)

Successes(k) == { j \in 1..k : ~session.turns[j].failed }

\* the history the most recent successful turn among the first k returned
LastReturned(k) ==
    IF Successes(k) = {} THEN <<>>
    ELSE session.turns[CHOOSE j \in Successes(k) : \A i \in Successes(k) : i <= j].updatedHistory

Alternates(history) ==
    \A i \in 1..Len(history) :
        history[i].Role = IF i % 2 = 1 THEN "user" ELSE "assistant"

\* C30: every turn of the session is given the history the most recent
\* successful turn returned, the empty history before the first success; a
\* failed turn leaves the history of the session as it was and the session goes
\* on (it ends only at the end of input or on 'exit' or 'quit'); the history
\* holds two messages for every successful turn, user and assistant in
\* alternation.
C30_SessionHistory ==
    LET n == Len(session.turns)
        history == Elems(session.conversationHistory)
    IN  /\ \A k \in 1..n : session.turns[k].history = LastReturned(k - 1)
        /\ session.pc = "turn" => Elems(input.history) = LastReturned(n)
        /\ history = LastReturned(n)
        /\ Len(history) = 2 * Cardinality(Successes(n))
        /\ Alternates(history)
        /\ session.pc = "ended" =>
              \/ session.inputPending = <<>>
              \/ EqualFold(session.inputPending, Exit)
              \/ EqualFold(session.inputPending, Quit)

\* a successful turn, then a failed one, and the session is at its prompt again
C30_Witness ==
    /\ Len(session.turns) = 2
    /\ ~session.turns[1].failed
    /\ session.turns[2].failed
    /\ session.pc = "prompt"
    /\ Len(Elems(session.conversationHistory)) = 2
====
